---------------------------- MODULE Spec2Model ----------------------------
(***************************************************************************)
(* Model of the live-session plan store (app.py), the text normaliser and  *)
(* the question ranker (crew_runner.py) of early_cancer_diagnosis.         *)
(*                                                                         *)
(* Text is a sequence of one-character strings, so that normalisation,     *)
(* tokenisation and substring search are computed, not assumed.            *)
(***************************************************************************)
EXTENDS Integers, Sequences, FiniteSets, TLC

(***************************************************************************)
(* Characters.  The alphabet is a small sample of each class that          *)
(* normalize_text treats differently: lower-case letters (kept), an        *)
(* upper-case letter (lowered), whitespace (collapsed) and punctuation     *)
(* (replaced by a space).                                                  *)
(***************************************************************************)
LowerChars ==
    {"a", "b", "c", "d", "e", "f", "g", "h", "i", "j", "k", "l", "m", "n", "o", "p", "q",
     "r", "s", "t", "u", "v", "w", "x", "y", "z"}

UpperChars == {"A", "D", "H", "P"}

SpaceChars == {" ", "\t", "\n"}

PunctChars == {"?", ":"}

\* str.lower() on one character
LowerChar(ch) ==
    CASE ch = "A" -> "a" [] ch = "D" -> "d" [] ch = "H" -> "h" [] ch = "P" -> "p" [] OTHER -> ch

\* text.lower()
Lower(s) == [i \in 1..Len(s) |-> LowerChar(s[i])]

RECURSIVE LStrip(_)
LStrip(s) ==
    IF s = <<>> THEN <<>>
    ELSE IF Head(s) \in SpaceChars THEN LStrip(Tail(s)) ELSE s

RECURSIVE RStrip(_)
RStrip(s) ==
    IF s = <<>> THEN <<>>
    ELSE IF s[Len(s)] \in SpaceChars THEN RStrip(SubSeq(s, 1, Len(s) - 1)) ELSE s

\* str.strip()
Strip(s) == RStrip(LStrip(s))

\* re.sub(r"[\r\n\t]+", " ", t): every run of tabs/newlines becomes one space
RECURSIVE SubTabs(_)
SubTabs(s) ==
    IF s = <<>> THEN <<>>
    ELSE IF Head(s) \in {"\t", "\n"}
         THEN IF Len(s) > 1 /\ s[2] \in {"\t", "\n"}
              THEN SubTabs(Tail(s))
              ELSE <<" ">> \o SubTabs(Tail(s))
         ELSE <<Head(s)>> \o SubTabs(Tail(s))

\* re.sub(r"[^a-z0-9\s]", " ", t): each other character becomes a space
SubNonAlnum(s) ==
    [i \in 1..Len(s) |->
        IF s[i] \in LowerChars \cup SpaceChars THEN s[i] ELSE " "]

\* re.sub(r"\s+", " ", t): every run of whitespace becomes one space
RECURSIVE SubSpaces(_)
SubSpaces(s) ==
    IF s = <<>> THEN <<>>
    ELSE IF Head(s) \in SpaceChars
         THEN IF Len(s) > 1 /\ s[2] \in SpaceChars
              THEN SubSpaces(Tail(s))
              ELSE <<" ">> \o SubSpaces(Tail(s))
         ELSE <<Head(s)>> \o SubSpaces(Tail(s))

\* crew_runner.normalize_text
normalize_text(text) ==
    IF text = <<>> THEN <<>>
    ELSE Strip(SubSpaces(SubNonAlnum(SubTabs(Strip(Lower(text))))))

\* str.split() as a sequence of tokens (maximal runs of non-whitespace)
RECURSIVE SplitFrom(_, _)
SplitFrom(s, cur) ==
    IF s = <<>> THEN (IF cur = <<>> THEN <<>> ELSE <<cur>>)
    ELSE IF Head(s) \in SpaceChars
         THEN (IF cur = <<>> THEN <<>> ELSE <<cur>>) \o SplitFrom(Tail(s), <<>>)
         ELSE SplitFrom(Tail(s), Append(cur, Head(s)))

Split(s) == SplitFrom(s, <<>>)

\* set(text.split())
TokenSet(s) == LET toks == Split(s) IN {toks[i] : i \in 1..Len(toks)}

\* Python's `needle in hay` on strings
IsSubstring(needle, hay) ==
    \E i \in 0..(Len(hay) - Len(needle)) :
        SubSeq(hay, i + 1, i + Len(needle)) = needle


(***************************************************************************)
(* difflib.SequenceMatcher(None, a, b).ratio() without junk (isjunk is     *)
(* None and autojunk only applies from 200 characters): positions are      *)
(* 0-based and ranges half-open, as in difflib.                            *)
(***************************************************************************)
RECURSIVE RunLen(_, _, _, _, _, _)
RunLen(a, b, i, j, ahi, bhi) ==
    IF i < ahi /\ j < bhi /\ a[i + 1] = b[j + 1]
    THEN 1 + RunLen(a, b, i + 1, j + 1, ahi, bhi)
    ELSE 0

SetMax(S) == CHOOSE m \in S : \A n \in S : n <= m

SetMin(S) == CHOOSE m \in S : \A n \in S : m <= n

\* SequenceMatcher.find_longest_match: the longest block, earliest in a, then in b
find_longest_match(a, b, alo, ahi, blo, bhi) ==
    LET k  == SetMax({RunLen(a, b, i, j, ahi, bhi) :
                        i \in alo..(ahi - 1), j \in blo..(bhi - 1)} \cup {0})
        bi == SetMin({i \in alo..(ahi - 1) :
                        \E j \in blo..(bhi - 1) : RunLen(a, b, i, j, ahi, bhi) = k})
        bj == SetMin({j \in blo..(bhi - 1) : RunLen(a, b, bi, j, ahi, bhi) = k})
    IN  IF k = 0 THEN <<alo, blo, 0>> ELSE <<bi, bj, k>>

\* SequenceMatcher.get_matching_blocks, summed: the number of matched characters
RECURSIVE MatchedChars(_, _, _, _, _, _)
MatchedChars(a, b, alo, ahi, blo, bhi) ==
    IF alo >= ahi \/ blo >= bhi THEN 0
    ELSE LET m == find_longest_match(a, b, alo, ahi, blo, bhi)
         IN  IF m[3] = 0 THEN 0
             ELSE m[3] + MatchedChars(a, b, alo, m[1], blo, m[2])
                       + MatchedChars(a, b, m[1] + m[3], ahi, m[2] + m[3], bhi)

\* ratio() = 2*M/T as the fraction <<2*M, T>> (1.0 when both are empty)
SeqRatio(a, b) ==
    IF Len(a) + Len(b) = 0 THEN <<1, 1>>
    ELSE <<2 * MatchedChars(a, b, 0, Len(a), 0, Len(b)), Len(a) + Len(b)>>

\* A variant of the similarity test that requires the combined score to
\* exceed the threshold.
questions_are_similarAbove(q1, q2) ==
    LET norm1 == normalize_text(q1)
        norm2 == normalize_text(q2)
        tokens1 == TokenSet(norm1)
        tokens2 == TokenSet(norm2)
        overlap == Cardinality(tokens1 \cap tokens2)
        union == Cardinality(tokens1 \cup tokens2)
        r == SeqRatio(norm1, norm2)
    IN  IF norm1 = <<>> \/ norm2 = <<>> THEN FALSE
        ELSE IF tokens1 = {} \/ tokens2 = {} THEN FALSE
        ELSE 8 * overlap * r[2] + 12 * r[1] * union > 15 * union * r[2]

\* crew_runner.questions_are_similar with threshold 0.75:
\* 0.4 * overlap/union + 0.6 * ratio >= 0.75, in exact arithmetic
questions_are_similar(q1, q2) ==
    LET norm1 == normalize_text(q1)
        norm2 == normalize_text(q2)
        tokens1 == TokenSet(norm1)
        tokens2 == TokenSet(norm2)
        overlap == Cardinality(tokens1 \cap tokens2)
        union == Cardinality(tokens1 \cup tokens2)
        r == SeqRatio(norm1, norm2)
    IN  IF norm1 = <<>> \/ norm2 = <<>> THEN FALSE
        ELSE IF tokens1 = {} \/ tokens2 = {} THEN FALSE
        ELSE 8 * overlap * r[2] + 12 * r[1] * union >= 15 * union * r[2]

\* A variant of the scan that compares an item with the last kept one only.
RECURSIVE DedupFromLastKept(_, _)
DedupFromLastKept(questions, unique) ==
    IF questions = <<>> THEN unique
    ELSE LET q == Head(questions)
             is_duplicate == unique # <<>> /\ questions_are_similar(q, unique[Len(unique)])
         IN  DedupFromLastKept(Tail(questions),
                               IF is_duplicate THEN unique ELSE Append(unique, q))

\* crew_runner.deduplicate_questions
RECURSIVE DedupFrom(_, _)
DedupFrom(questions, unique) ==
    IF questions = <<>> THEN unique
    ELSE LET q == Head(questions)
             is_duplicate == \E i \in 1..Len(unique) : questions_are_similar(q, unique[i])
         IN  DedupFrom(Tail(questions), IF is_duplicate THEN unique ELSE Append(unique, q))

deduplicate_questions(questions) == DedupFrom(questions, <<>>)

(***************************************************************************)
(* Scores are exact fractions <<n, d>> with d > 0, in lowest terms, so     *)
(* that equal floats are equal values.  The float nan is NaNScore; every   *)
(* ordered comparison with it is false.                                    *)
(***************************************************************************)
NaNScore == <<0, 0>>

IsNaN(p) == p[2] = 0

RECURSIVE Gcd(_, _)
Gcd(m, n) == IF n = 0 THEN m ELSE Gcd(n, m % n)

Abs(n) == IF n < 0 THEN 0 - n ELSE n

Frac(n, d) == LET g == Gcd(Abs(n), d) IN <<n \div g, d \div g>>

FracGeq(p, q) == ~IsNaN(p) /\ ~IsNaN(q) /\ p[1] * q[2] >= q[1] * p[2]

FracLess(p, q) == ~IsNaN(p) /\ ~IsNaN(q) /\ p[1] * q[2] < q[1] * p[2]

\* A variant of the sort that places a row before the rows of equal score.
RECURSIVE SortDescTiesFirst(_)
SortDescTiesFirst(items) ==
    IF items = <<>> THEN <<>>
    ELSE LET last == items[Len(items)]
             rest == SortDescTiesFirst(SubSeq(items, 1, Len(items) - 1))
             n    == Cardinality({i \in 1..Len(rest) : FracLess(last.score, rest[i].score)})
         IN  SubSeq(rest, 1, n) \o <<last>> \o SubSeq(rest, n + 1, Len(rest))

\* list.sort(key=score, reverse=True): stable, equal scores keep their order;
\* a row is placed after the rows it is not greater than (with a nan score:
\* what the sort yields on lists of up to two rows)
RECURSIVE SortDesc(_)
SortDesc(items) ==
    IF items = <<>> THEN <<>>
    ELSE LET last == items[Len(items)]
             rest == SortDesc(SubSeq(items, 1, Len(items) - 1))
             n    == Cardinality({i \in 1..Len(rest) : ~FracLess(rest[i].score, last.score)})
         IN  SubSeq(rest, 1, n) \o <<last>> \o SubSeq(rest, n + 1, Len(rest))

\* items[:n]
FirstN(items, n) == SubSeq(items, 1, IF Len(items) < n THEN Len(items) ELSE n)

\* items[-n:]
LastN(items, n) ==
    SubSeq(items, IF Len(items) < n THEN 1 ELSE Len(items) - n + 1, Len(items))

(***************************************************************************)
(* The scorer's output text, as a sequence of lexemes [t, q, s]:           *)
(*   t = "[" | "]" | "," | "junk" | "scalar" | "obj"                       *)
(* An "obj" lexeme is a JSON object {"question": q, "score": s}, where     *)
(*   q = [k |-> "str", v |-> text] | [k |-> "none"] (missing, null, "")    *)
(*     | [k |-> "nonstr"] (a truthy value that is no string)               *)
(*   s = [k |-> "num", v |-> <<n, d>>] | [k |-> "bad"] (float() raises)    *)
(*     | [k |-> "nan"] (the JSON literal NaN, or the string "nan")         *)
(***************************************************************************)
NoVal == [k |-> "none", v |-> <<>>]

Lex(t) == [t |-> t, q |-> NoVal, s |-> NoVal]

Obj(q, s) == [t |-> "obj", q |-> q, s |-> s]

StrVal(text) == [k |-> "str", v |-> text]

NumVal(n, d) == [k |-> "num", v |-> Frac(n, d)]

\* json.loads on a lexeme sequence: a value is an object, a scalar or a list of values
JNode(k, items, lex) == [k |-> k, items |-> items, lex |-> lex]

JFail == [ok |-> FALSE, val |-> JNode("none", <<>>, Lex("junk")), nxt |-> 0]

RECURSIVE ParseValue(_, _)
RECURSIVE ParseItems(_, _, _)
ParseValue(toks, p) ==
    IF p > Len(toks) THEN JFail
    ELSE IF toks[p].t \in {"obj", "scalar"}
         THEN [ok |-> TRUE, val |-> JNode(toks[p].t, <<>>, toks[p]), nxt |-> p + 1]
    ELSE IF toks[p].t = "["
         THEN IF p + 1 <= Len(toks) /\ toks[p + 1].t = "]"
              THEN [ok |-> TRUE, val |-> JNode("list", <<>>, toks[p]), nxt |-> p + 2]
              ELSE ParseItems(toks, p + 1, <<>>)
    ELSE JFail

ParseItems(toks, p, acc) ==
    LET v == ParseValue(toks, p)
    IN  IF ~v.ok THEN JFail
        ELSE IF v.nxt > Len(toks) THEN JFail
        ELSE IF toks[v.nxt].t = "]"
             THEN [ok |-> TRUE, val |-> JNode("list", Append(acc, v.val), Lex("[")),
                   nxt |-> v.nxt + 1]
        ELSE IF toks[v.nxt].t = ","
             THEN ParseItems(toks, v.nxt + 1, Append(acc, v.val))
        ELSE JFail

JsonLoads(toks) ==
    LET v == ParseValue(toks, 1)
    IN  IF v.ok /\ v.nxt = Len(toks) + 1 THEN v.val ELSE JFail.val

\* re.search(r"(\[.*\]|\{.*\})", text, re.DOTALL): the leftmost position where a
\* "[" has a later "]" (taken greedily to the last one) or an object opens
\* (taken greedily to the last "}")
JsonCandidate(text) ==
    LET lastOf(kind) == SetMax({i \in 1..Len(text) : text[i].t = kind} \cup {0})
        starts == {i \in 1..Len(text) :
                      \/ text[i].t = "[" /\ lastOf("]") > i
                      \/ text[i].t = "obj"}
    IN  IF starts = {} THEN text
        ELSE LET p == SetMin(starts)
             IN  SubSeq(text, p, IF text[p].t = "[" THEN lastOf("]") ELSE lastOf("obj"))

\* crew_runner._safe_json_from_text: a JNode, of kind "none" for None
_safe_json_from_text(text) ==
    IF text = <<>> THEN JFail.val ELSE JsonLoads(JsonCandidate(text))

(***************************************************************************)
(* crew_runner.rank_questions_for_unasked.  The text-generation capability *)
(* is an input, llm = [fail, scorer, text]:                                *)
(*   fail   = "none" | "load_llm" | "load_agents" | "run_task" (what raises)*)
(*   scorer = whether agents.yaml holds a scorer agent                     *)
(*   text   = the lexemes run_task returns                                 *)
(* The result is [result, calls]: the ranked list and the external calls   *)
(* made, in order.                                                         *)
(***************************************************************************)
HighPriorityNum == 6

HighPriorityDen == 10

MinHighPriority == 5

MaxRanked == 10

\* [q.strip() for q in (questions or []) if (q or "").strip()]
RECURSIVE StripNonEmpty(_)
StripNonEmpty(questions) ==
    IF questions = <<>> THEN <<>>
    ELSE (IF Strip(Head(questions)) = <<>> THEN <<>> ELSE <<Strip(Head(questions))>>)
         \o StripNonEmpty(Tail(questions))

RankItem(q, score) == [question |-> q, score |-> score]

\* s = float(s), 0.0 when that raises; "if s < 0.0" and "if s > 1.0" are both
\* false for nan, which is kept
ClampScore(s) ==
    IF s.k = "nan" THEN NaNScore
    ELSE IF s.k # "num" THEN <<0, 1>>
    ELSE IF s.v[1] < 0 THEN <<0, 1>>
    ELSE IF s.v[1] > s.v[2] THEN <<1, 1>>
    ELSE s.v

\* the loop over the parsed list: [raised, out]; (5).strip() raises
RECURSIVE ScoredRows(_, _)
ScoredRows(items, out) ==
    IF items = <<>> THEN [raised |-> FALSE, out |-> out]
    ELSE LET item == Head(items)
         IN  IF item.k # "obj" THEN ScoredRows(Tail(items), out)
             ELSE IF item.lex.q.k = "nonstr" THEN [raised |-> TRUE, out |-> out]
             ELSE IF item.lex.q.k = "none" \/ Strip(item.lex.q.v) = <<>>
                  THEN ScoredRows(Tail(items), out)
             ELSE ScoredRows(Tail(items),
                     Append(out, RankItem(Strip(item.lex.q.v), ClampScore(item.lex.s))))

\* orig_norm = {normalize_text(q): q for q in questions}: the last question wins
OrigNormHas(questions, nq) == \E i \in 1..Len(questions) : normalize_text(questions[i]) = nq

OrigNormGet(questions, nq) ==
    questions[SetMax({i \in 1..Len(questions) : normalize_text(questions[i]) = nq})]

RECURSIVE FilterOriginal(_, _)
FilterOriginal(out, questions) ==
    IF out = <<>> THEN <<>>
    ELSE LET nq == normalize_text(Head(out).question)
         IN  (IF OrigNormHas(questions, nq)
              THEN <<RankItem(OrigNormGet(questions, nq), Head(out).score)>>
              ELSE <<>>) \o FilterOriginal(Tail(out), questions)

\* A variant of the size policy without the branch for fewer than five
\* high-priority rows.
SizePolicyNoFloor(filtered) ==
    LET sorted == SortDesc(filtered)
        IsHigh(it) == FracGeq(it.score, <<HighPriorityNum, HighPriorityDen>>)
        high_priority == SelectSeq(sorted, IsHigh)
    IN  IF Len(high_priority) > MaxRanked THEN FirstN(sorted, MaxRanked)
        ELSE high_priority

\* the result-size policy on the non-empty filtered list
SizePolicy(filtered) ==
    LET sorted == SortDesc(filtered)
        IsHigh(it) == FracGeq(it.score, <<HighPriorityNum, HighPriorityDen>>)
        high_priority == SelectSeq(sorted, IsHigh)
    IN  IF Len(high_priority) < MinHighPriority THEN FirstN(sorted, MaxRanked)
        ELSE IF Len(high_priority) > MaxRanked THEN FirstN(sorted, MaxRanked)
        ELSE high_priority

\* A variant of the fallback score that divides by the size of the union of
\* the two token sets.
FallbackScoreJaccard(q, conv_tokens) ==
    LET q_tokens == TokenSet(normalize_text(q))
    IN  IF q_tokens = {} THEN <<0, 1>>
        ELSE Frac(Cardinality(q_tokens \cap conv_tokens),
                  Cardinality(q_tokens \cup conv_tokens))

\* the fallback heuristic ranking
FallbackScore(q, conv_tokens) ==
    LET q_tokens == TokenSet(normalize_text(q))
    IN  IF q_tokens = {} THEN <<0, 1>>
        ELSE Frac(Cardinality(q_tokens \cap conv_tokens),
                  IF Cardinality(q_tokens) < 1 THEN 1 ELSE Cardinality(q_tokens))

FallbackRank(convo_text, questions) ==
    LET conv_tokens == TokenSet(normalize_text(Strip(convo_text)))
        ranked == [i \in 1..Len(questions) |->
                      RankItem(questions[i], FallbackScore(questions[i], conv_tokens))]
    IN  FirstN(SortDesc(ranked), MaxRanked)

\* A variant of the try block that returns the filtered list even when it is
\* empty.
ScoringPathNoGuard(questions, llm) ==
    LET none(calls) == [returned |-> FALSE, result |-> <<>>, calls |-> calls]
    IN  IF llm.fail = "load_llm" THEN none(<<"load_llm">>)
        ELSE IF llm.fail = "load_agents" THEN none(<<"load_llm", "load_agents">>)
        ELSE IF ~llm.scorer THEN none(<<"load_llm", "load_agents">>)
        ELSE IF llm.fail = "run_task" THEN none(<<"load_llm", "load_agents", "run_task">>)
        ELSE LET calls == <<"load_llm", "load_agents", "run_task">>
                 parsed == _safe_json_from_text(llm.text)
                 rows == ScoredRows(parsed.items, <<>>)
                 filtered == FilterOriginal(rows.out, questions)
             IN  IF parsed.k # "list" THEN none(calls)
                 ELSE IF rows.raised THEN none(calls)
                 ELSE [returned |-> TRUE, result |-> SizePolicy(filtered), calls |-> calls]

\* the try block: [returned, result, calls]; returned is FALSE when it raises or
\* falls through to the fallback
ScoringPath(questions, llm) ==
    LET none(calls) == [returned |-> FALSE, result |-> <<>>, calls |-> calls]
    IN  IF llm.fail = "load_llm" THEN none(<<"load_llm">>)
        ELSE IF llm.fail = "load_agents" THEN none(<<"load_llm", "load_agents">>)
        ELSE IF ~llm.scorer THEN none(<<"load_llm", "load_agents">>)
        ELSE IF llm.fail = "run_task" THEN none(<<"load_llm", "load_agents", "run_task">>)
        ELSE LET calls == <<"load_llm", "load_agents", "run_task">>
                 parsed == _safe_json_from_text(llm.text)
                 rows == ScoredRows(parsed.items, <<>>)
                 filtered == FilterOriginal(rows.out, questions)
             IN  IF parsed.k # "list" THEN none(calls)
                 ELSE IF rows.raised THEN none(calls)
                 ELSE IF filtered = <<>> THEN none(calls)
                 ELSE [returned |-> TRUE, result |-> SizePolicy(filtered), calls |-> calls]

rank_questions_for_unasked(convo_text, questions, llm) ==
    LET stripped == StripNonEmpty(questions)
        unique == deduplicate_questions(stripped)
        scored == ScoringPath(unique, llm)
    IN  IF stripped = <<>> THEN [result |-> <<>>, calls |-> <<>>]
        ELSE IF scored.returned THEN [result |-> scored.result, calls |-> scored.calls]
        ELSE [result |-> FallbackRank(convo_text, unique), calls |-> scored.calls]

(***************************************************************************)
(* The live-session plan store of app.py: pure bodies of the handlers.     *)
(***************************************************************************)
NoScore == -1

HistoryCap == 400

HistoryKeep == 300

FollowupCap == 200

FollowupKeep == 150

PostStopClip == 12000

MinOverlap == 3

MinRatioNum == 55

MinRatioDen == 100

\* one entry of st["questions"]; the dict keeps insertion order, so the plan is
\* the sequence of its entries, nq being the key
PlanEntry(nq, q, now) ==
    [nq |-> nq, question |-> q, score |-> <<NoScore, 1>>, added_at |-> now, asked |-> FALSE]

PlanKeys(questions) == {questions[i].nq : i \in 1..Len(questions)}

NoPostStop ==
    [saved |-> FALSE, convo_text |-> <<>>, listener_output |-> "", unasked |-> <<>>,
     saved_at |-> 0]

\* the dict _get_or_create_live_state builds
FreshState(now) ==
    [live |-> TRUE, created_at |-> now, questions |-> <<>>, history |-> <<>>,
     post_stop |-> NoPostStop, has_followup |-> FALSE, followup |-> <<>>]

\* a heap cell that holds no state object
FreeCell ==
    [live |-> FALSE, created_at |-> 0, questions |-> <<>>, history |-> <<>>,
     post_stop |-> NoPostStop, has_followup |-> FALSE, followup |-> <<>>]

\* A variant of the loop that appends every usable item without looking the
\* key up: the plan would hold one normalized key twice.
RECURSIVE PlanLoopAppendAll(_, _, _, _)
PlanLoopAppendAll(questions, required, now, added) ==
    IF required = <<>> THEN [questions |-> questions, added |-> added]
    ELSE LET q  == Strip(Head(required))
             nq == normalize_text(q)
         IN  IF q = <<>> \/ nq = <<>>
             THEN PlanLoopAppendAll(questions, Tail(required), now, added)
             ELSE PlanLoopAppendAll(Append(questions, PlanEntry(nq, q, now)),
                                    Tail(required), now, added + 1)

\* live_plan, the loop over `required` under the lock: [questions, added].
\* An item is (item.get("text") or ""): a missing or null text is the empty text.
RECURSIVE PlanLoop(_, _, _, _)
PlanLoop(questions, required, now, added) ==
    IF required = <<>> THEN [questions |-> questions, added |-> added]
    ELSE LET q  == Strip(Head(required))
             nq == normalize_text(q)
         IN  IF q = <<>> THEN PlanLoop(questions, Tail(required), now, added)
             ELSE IF nq = <<>> THEN PlanLoop(questions, Tail(required), now, added)
             ELSE IF nq \notin PlanKeys(questions)
                  THEN PlanLoop(Append(questions, PlanEntry(nq, q, now)),
                                Tail(required), now, added + 1)
             ELSE PlanLoop(questions, Tail(required), now, added)

\* A variant of the test that is content with two shared tokens.
AskedMatchLoose(nq, norm_final) ==
    LET final_tokens == TokenSet(norm_final)
        q_tokens == TokenSet(nq)
        overlap == Cardinality(q_tokens \cap final_tokens)
        m == IF Cardinality(q_tokens) < Cardinality(final_tokens)
             THEN Cardinality(q_tokens) ELSE Cardinality(final_tokens)
        den == IF m < 1 THEN 1 ELSE m
    IN  \/ nq # <<>> /\ IsSubstring(nq, norm_final)
        \/ /\ q_tokens # {}
           /\ overlap >= 2
           /\ overlap * MinRatioDen >= MinRatioNum * den

\* live_mark_asked, the test of one entry that is not asked yet
AskedMatch(nq, norm_final) ==
    LET final_tokens == TokenSet(norm_final)
        q_tokens == TokenSet(nq)
        overlap == Cardinality(q_tokens \cap final_tokens)
        m == IF Cardinality(q_tokens) < Cardinality(final_tokens)
             THEN Cardinality(q_tokens) ELSE Cardinality(final_tokens)
        den == IF m < 1 THEN 1 ELSE m
    IN  \/ nq # <<>> /\ IsSubstring(nq, norm_final)
        \/ /\ q_tokens # {}
           /\ overlap >= MinOverlap
           /\ overlap * MinRatioDen >= MinRatioNum * den

\* A variant of the loop that tests every entry again and stores the outcome,
\* asked or not.
MarkLoopRetest(questions, final_text) ==
    LET norm_final == normalize_text(final_text)
        now_asked(i) == AskedMatch(questions[i].nq, norm_final)
    IN  [questions |-> [i \in 1..Len(questions) |->
                           [questions[i] EXCEPT !.asked = now_asked(i)]],
         matched |-> Cardinality({i \in 1..Len(questions) :
                                     ~questions[i].asked /\ now_asked(i)})]

\* live_mark_asked, the loop over the plan under the lock: [questions, matched]
MarkLoop(questions, final_text) ==
    LET norm_final == normalize_text(final_text)
        hit(i) == ~questions[i].asked /\ AskedMatch(questions[i].nq, norm_final)
    IN  [questions |-> [i \in 1..Len(questions) |->
                           IF hit(i) THEN [questions[i] EXCEPT !.asked = TRUE]
                           ELSE questions[i]],
         matched |-> Cardinality({i \in 1..Len(questions) : hit(i)})]

\* A variant of the cap that keeps the oldest entries.
AppendHistoryKeepOldest(history, role, msg, now) ==
    LET h == Append(history, [role |-> role, message |-> msg, ts |-> now])
    IN  IF Len(h) > HistoryCap THEN FirstN(h, HistoryKeep) ELSE h

\* _append_live_history, the part under the lock
AppendHistory(history, role, msg, now) ==
    LET h == Append(history, [role |-> role, message |-> msg, ts |-> now])
    IN  IF Len(h) > HistoryCap THEN LastN(h, HistoryKeep) ELSE h

\* [qobj["question"] for qobj in st["questions"].values() if not qobj.get("asked")]
RECURSIVE UnaskedQuestions(_)
UnaskedQuestions(questions) ==
    IF questions = <<>> THEN <<>>
    ELSE (IF Head(questions).asked THEN <<>> ELSE <<Head(questions).question>>)
         \o UnaskedQuestions(Tail(questions))

\* "\n".join([f"{m.get('role', '')}: {m.get('message', '')}" for m in history])
RECURSIVE JoinLines(_)
JoinLines(history) ==
    IF history = <<>> THEN <<>>
    ELSE Head(history).role \o <<":", " ">> \o Head(history).message
         \o (IF Len(history) > 1 THEN <<"\n">> ELSE <<>>) \o JoinLines(Tail(history))

\* history = st.get("history") or []; if not history: history = session.get("conv", [])
ConvoText(history, conv) == JoinLines(IF history = <<>> THEN conv ELSE history)

\* the write-back of the ranked scores under the lock
RECURSIVE WriteScores(_, _)
WriteScores(questions, ranked) ==
    IF ranked = <<>> THEN questions
    ELSE LET nq == normalize_text(Strip(Head(ranked).question))
         IN  WriteScores([i \in 1..Len(questions) |->
                             IF questions[i].nq = nq
                             THEN [questions[i] EXCEPT !.score = Head(ranked).score]
                             ELSE questions[i]],
                         Tail(ranked))

\* live_stop_bundle, the post-stop context stored under the lock
StorePostStop(st, convo_text, listener_output, ranked, now) ==
    [st EXCEPT !.post_stop = [saved |-> TRUE,
                              convo_text |-> LastN(convo_text, PostStopClip),
                              listener_output |-> listener_output,
                              unasked |-> ranked, saved_at |-> now],
               !.has_followup = TRUE,
               !.followup = IF Len(st.followup) > FollowupCap
                            THEN LastN(st.followup, FollowupKeep) ELSE st.followup]

\* live_followup_chat, the two turns saved under the lock
SaveFollowup(st, user_msg, answer, now) ==
    LET f == st.followup \o <<[role |-> "clinician", message |-> user_msg, ts |-> now],
                              [role |-> "assistant", message |-> answer, ts |-> now]>>
    IN  [st EXCEPT !.has_followup = TRUE,
                   !.followup = IF Len(f) > FollowupCap THEN LastN(f, FollowupKeep) ELSE f]

(***************************************************************************)
(* The request-serving model.  Each thread serves one request at a time;   *)
(* pc[t] is the next step of t's handler and loc[t] its local variables.   *)
(* The session is the client's cookie: a request works on its own copy     *)
(* (sid, conv) and the response writes it back when it was modified.       *)
(* State objects live in a heap, because LIVE_STATE and the handlers'      *)
(* `st` variables alias them.                                              *)
(***************************************************************************)
MaxReq == 4

MaxReqSession == 4

MaxReqFollowup == 4

MaxReqPlan == 3

MaxReqAppend == 3

MaxAppends == 402

MaxConv == 3

MaxObj == 3

Threads == {"t1", "t2"}

NoThread == "none"

Uid == "u1"

Cids == 1..MaxConv

NoCid == 0

ObjIds == 1..MaxObj

NoObj == 0

Keys == {<<Uid, c>> : c \in Cids}

VARIABLES LIVE_STATE, heap, lock, cookie, conversations, nconv, pc, loc, nreq,
          faiss_system, found, db, resp

vars == <<LIVE_STATE, heap, lock, cookie, conversations, nconv, pc, loc, nreq,
          faiss_system, found, db, resp>>

\* the SQL tables the model follows: conversation rows by id, patient rows in
\* insertion order, likelihood snapshots by conversation id
NoRow == [present |-> FALSE]

EmptyDb == [conversation |-> <<>>, patients |-> <<>>, likelihoods |-> <<>>, messages |-> <<>>]

\* the response of the last request served
NoResp == [op |-> "none"]

\* MedicalCaseFAISS.__init__: self.index = None, self.cases = []; an index is
\* the sequence of its vectors
NoIndex == [present |-> FALSE, vectors |-> <<>>]

NewFaiss == [index |-> NoIndex, cases |-> <<>>]

\* the outcome of the last call on the case database
NoCall == [op |-> "none", raised |-> FALSE, given |-> <<>>, query |-> 0, k |-> 0,
           threshold |-> 0, candidates |-> <<>>, results |-> <<>>]

\* sample texts
qABC == <<"a", " ", "b", " ", "c">>

qABC2 == <<" ", "A", " ", "b", "\t", "c", "?">>

qLong == <<"a", " ", "b", " ", "c", " ", "d", " ", "e", " ", "f">>

qPunct == <<"?">>

tPerm == <<"c", " ", "b", " ", "a">>

tTwo == <<"b", " ", "a">>

tBlank == <<" ">>

RoleA == <<"h">>

AnswerText == <<"i">>

NoLLM == [fail |-> "none", scorer |-> FALSE, text |-> <<>>]

\* a request: the endpoint and its payload
Req(op, required, text) == [op |-> op, required |-> required, text |-> text]

IdleLoc ==
    [op |-> "none", required |-> <<>>, text |-> <<>>, sid |-> NoCid, conv |-> <<>>,
     mod |-> FALSE, key |-> NoCid, st |-> NoObj, now |-> 0,
     added |-> 0, matched |-> 0, total |-> 0, questions |-> <<>>, convo_text |-> <<>>,
     listener_output |-> "", ranked |-> <<>>, status |-> 0,
     llm |-> NoLLM, calls |-> <<>>, popped |-> FALSE,
     window |-> FALSE, hist_seen |-> <<>>, qs_seen |-> {}]

\* History variables of a request, kept to state what its reads saw: while
\* `window` holds (from the read of the transcript to the read of the unasked
\* questions) qs_seen collects every unasked list the state object held while
\* its history was still the one read, hist_seen.
Observe(l, h) ==
    [u \in Threads |->
        IF l[u].window /\ h[l[u].st].history = l[u].hist_seen
        THEN [l[u] EXCEPT !.qs_seen = @ \cup {UnaskedQuestions(h[l[u].st].questions)}]
        ELSE l[u]]

Range(f) == {f[k] : k \in DOMAIN f}

\* cells no longer referenced by LIVE_STATE or by a handler's st are freed
Collect(h, ls, l) ==
    [o \in ObjIds |->
        IF o \in Range(ls) \cup {l[t].st : t \in Threads} THEN h[o] ELSE FreeCell]

Init ==
    /\ faiss_system = NewFaiss
    /\ found = NoCall
    /\ db = EmptyDb
    /\ resp = NoResp
    /\ LIVE_STATE = [k \in Keys |-> NoObj]
    /\ heap = [o \in ObjIds |-> FreeCell]
    /\ lock = NoThread
    /\ cookie = [user |-> TRUE, id |-> NoCid, conv |-> <<>>]
    /\ conversations = {}
    /\ nconv = 0
    /\ pc = [t \in Threads |-> "idle"]
    /\ loc = [t \in Threads |-> IdleLoc]
    /\ nreq = 0

\* The state after the session's first request, a /live/reset_plan, has been
\* answered: it created conversation 1 and found no state to remove.  Requests
\* that arrive together share a key only once the cookie holds the id.
InitLive ==
    /\ faiss_system = NewFaiss
    /\ found = NoCall
    /\ db = EmptyDb
    /\ resp = NoResp
    /\ LIVE_STATE = [k \in Keys |-> NoObj]
    /\ heap = [o \in ObjIds |-> FreeCell]
    /\ lock = NoThread
    /\ cookie = [user |-> TRUE, id |-> 1, conv |-> <<>>]
    /\ conversations = {1}
    /\ nconv = 1
    /\ pc = [t \in Threads |-> "idle"]
    /\ loc = [t \in Threads |-> IdleLoc]
    /\ nreq = 1

\* app._ensure_conversation_id on the request's session copy:
\* [sid, conv, mod, created]; a stale id is dropped and a conversation created
EnsureConversation(l) ==
    LET stale == l.sid # NoCid /\ l.sid \notin conversations
        existing == IF stale THEN NoCid ELSE l.sid
    IN  IF existing = NoCid
        THEN [sid |-> nconv + 1, conv |-> <<>>, mod |-> TRUE, created |-> TRUE]
        ELSE [sid |-> existing, conv |-> l.conv, mod |-> l.mod, created |-> FALSE]

\* models.create_conversation: a fresh id
CreateConversation(created) ==
    /\ created => nconv < MaxConv
    /\ conversations' = IF created THEN conversations \cup {nconv + 1} ELSE conversations
    /\ nconv' = IF created THEN nconv + 1 ELSE nconv

\* a request arrives (@login_required); its clock reading is its arrival number.
\* Thread t2 serves a request only while t1 is busy: which thread serves a
\* request makes no difference to the program.
FirstPc(rq) ==
    CASE rq.op = "plan" -> "plan_goc"
      [] rq.op = "mark" -> IF Strip(rq.text) = <<>> THEN "done" ELSE "mark_goc"
      [] rq.op = "unasked" -> "un_goc"
      [] rq.op = "stop" -> "sb_goc"
      [] rq.op = "followup" -> IF Strip(rq.text) = <<>> THEN "done" ELSE "fu_goc"
      [] rq.op = "chat" -> IF Strip(rq.text) = <<>> THEN "done" ELSE "ap_goc"
      [] rq.op = "append" -> "ap_goc"
      [] rq.op = "reset" -> "rs_key"
      [] rq.op = "reset_conv" -> "rc_key"

Start(t, rq, budget) ==
    /\ pc[t] = "idle"
    /\ t = "t2" => pc["t1"] # "idle"
    /\ cookie.user
    /\ nreq < budget
    /\ nreq' = nreq + 1
    /\ pc' = [pc EXCEPT ![t] = FirstPc(rq)]
    /\ loc' = [loc EXCEPT ![t] =
                 [IdleLoc EXCEPT !.op = rq.op, !.required = rq.required, !.text = rq.text,
                                 !.sid = cookie.id, !.conv = cookie.conv, !.now = nreq + 1,
                                 !.status = IF FirstPc(rq) = "done"
                                               /\ rq.op \in {"followup", "chat"}
                                            THEN 400 ELSE 200]]
    /\ UNCHANGED <<LIVE_STATE, heap, lock, cookie, conversations, nconv, faiss_system, found, db, resp>>

\* app._get_or_create_live_state: _live_key, then get or create under the lock.
\* agent_chat_stream has appended the turn to session["conv"] before it calls
\* _append_live_history; a direct call of _append_live_history ("append")
\* leaves the session's transcript alone.
AfterGoc(l) ==
    CASE l.op = "plan" -> "plan_lock"
      [] l.op = "mark" -> "mark_lock"
      [] l.op = "unasked" -> "un_lock1"
      [] l.op = "stop" -> "sb_lock1"
      [] l.op = "followup" -> "fu_lock1"
      [] l.op = "chat" -> "ap_lock"
      [] l.op = "append" -> IF Strip(l.text) = <<>> THEN "done" ELSE "ap_lock"

GetOrCreate(t) ==
    LET e == EnsureConversation(loc[t])
        key == <<Uid, e.sid>>
        free == {o \in ObjIds : ~heap[o].live}
        st == IF LIVE_STATE[key] # NoObj THEN LIVE_STATE[key] ELSE SetMin(free)
    IN  /\ pc[t] \in {"plan_goc", "mark_goc", "un_goc", "sb_goc", "fu_goc", "ap_goc"}
        /\ lock \in {NoThread, t}
        /\ CreateConversation(e.created)
        /\ LIVE_STATE[key] = NoObj => free # {}
        /\ LIVE_STATE' = [LIVE_STATE EXCEPT ![key] = st]
        /\ heap' = IF LIVE_STATE[key] # NoObj THEN heap
                   ELSE [heap EXCEPT ![st] = FreshState(loc[t].now)]
        /\ loc' = [loc EXCEPT ![t].sid = e.sid,
                              ![t].conv = IF loc[t].op = "chat"
                                          THEN Append(e.conv, [role |-> RoleA,
                                                               message |-> Strip(loc[t].text)])
                                          ELSE e.conv,
                              ![t].mod = e.mod \/ loc[t].op = "chat",
                              ![t].key = e.sid, ![t].st = st]
        /\ pc' = [pc EXCEPT ![t] = AfterGoc(loc[t])]
        /\ UNCHANGED <<lock, cookie, nreq, faiss_system, found, db, resp>>

\* `with LIVE_STATE_LOCK:` entered (an RLock: free, or already held by t)
AfterAcquire(p) ==
    CASE p = "plan_lock" -> "plan_cs"
      [] p = "mark_lock" -> "mark_cs"
      [] p = "un_lock1" -> "un_read"
      [] p = "un_lock2" -> "un_write"
      [] p = "sb_lock1" -> "sb_read1"
      [] p = "sb_lock2" -> "sb_read2"
      [] p = "sb_lock3" -> "sb_write"
      [] p = "sb_lock4" -> "sb_post"
      [] p = "fu_lock1" -> "fu_read"
      [] p = "fu_lock2" -> "fu_save"
      [] p = "ap_lock" -> "ap_cs"
      [] p = "rs_lock" -> "rs_pop"
      [] p = "rc_lock" -> "rc_pop"

LockPcs ==
    {"plan_lock", "mark_lock", "un_lock1", "un_lock2", "sb_lock1", "sb_lock2", "sb_lock3",
     "sb_lock4", "fu_lock1", "fu_lock2", "ap_lock", "rs_lock", "rc_lock"}

Acquire(t) ==
    /\ pc[t] \in LockPcs
    /\ lock \in {NoThread, t}
    /\ lock' = t
    /\ pc' = [pc EXCEPT ![t] = AfterAcquire(pc[t])]
    /\ UNCHANGED <<LIVE_STATE, heap, cookie, conversations, nconv, loc, nreq, faiss_system, found, db, resp>>

\* the outcomes of the text-generation capability a live request may meet
FailLLM == [fail |-> "run_task", scorer |-> TRUE, text |-> <<>>]

RECURSIVE EchoText(_, _)
EchoText(questions, score) ==
    IF questions = <<>> THEN <<>>
    ELSE <<Obj(StrVal(Head(questions)), [k |-> "num", v |-> score])>>
         \o (IF Len(questions) > 1 THEN <<Lex(",")>> ELSE <<>>)
         \o EchoText(Tail(questions), score)

\* the scorer answers with a JSON list that gives every question the same score
EchoLLM(questions, score) ==
    [fail |-> "none", scorer |-> TRUE,
     text |-> <<Lex("[")>> \o EchoText(questions, score) \o <<Lex("]")>>]

LiveLLM(questions) == {FailLLM, EchoLLM(questions, <<1, 2>>)}

St(t) == heap[loc[t].st]

\* live_plan: the insertions under the lock, then the lock is released
PlanBody(t) ==
    LET r == PlanLoop(St(t).questions, loc[t].required, loc[t].now, 0)
    IN  /\ pc[t] = "plan_cs"
        /\ heap' = [heap EXCEPT ![loc[t].st].questions = r.questions]
        /\ loc' = Observe([loc EXCEPT ![t].added = r.added], heap')
        /\ lock' = NoThread
        /\ pc' = [pc EXCEPT ![t] = "plan_ret"]
        /\ UNCHANGED <<LIVE_STATE, cookie, conversations, nconv, nreq, faiss_system, found, db, resp>>

\* live_plan: jsonify(added, total = len(st["questions"]))
PlanReturn(t) ==
    /\ pc[t] = "plan_ret"
    /\ loc' = [loc EXCEPT ![t].total = Len(St(t).questions)]
    /\ pc' = [pc EXCEPT ![t] = "done"]
    /\ UNCHANGED <<LIVE_STATE, heap, lock, cookie, conversations, nconv, nreq, faiss_system, found, db, resp>>

\* live_mark_asked: the matching under the lock
MarkBody(t) ==
    LET r == MarkLoop(St(t).questions, Strip(loc[t].text))
    IN  /\ pc[t] = "mark_cs"
        /\ heap' = [heap EXCEPT ![loc[t].st].questions = r.questions]
        /\ loc' = Observe([loc EXCEPT ![t].matched = r.matched], heap')
        /\ lock' = NoThread
        /\ pc' = [pc EXCEPT ![t] = "done"]
        /\ UNCHANGED <<LIVE_STATE, cookie, conversations, nconv, nreq, faiss_system, found, db, resp>>

\* _append_live_history: the append under the lock
AppendBody(t) ==
    /\ pc[t] = "ap_cs"
    /\ heap' = [heap EXCEPT ![loc[t].st].history =
                  AppendHistory(St(t).history, RoleA, Strip(loc[t].text), loc[t].now)]
    /\ lock' = NoThread
    /\ pc' = [pc EXCEPT ![t] = "done"]
    /\ UNCHANGED <<LIVE_STATE, cookie, conversations, nconv, loc, nreq, faiss_system, found, db, resp>>

\* A variant of live_unasked that ranks inside the `with` block: the read
\* leaves the lock held.
UnaskedReadHolding(t) ==
    /\ pc[t] = "un_read"
    /\ loc' = [loc EXCEPT ![t].questions = UnaskedQuestions(St(t).questions),
                          ![t].convo_text = ConvoText(St(t).history, loc[t].conv),
                          ![t].hist_seen = St(t).history,
                          ![t].qs_seen = {UnaskedQuestions(St(t).questions)}]
    /\ pc' = [pc EXCEPT ![t] = "un_rank"]
    /\ UNCHANGED <<LIVE_STATE, heap, lock, cookie, conversations, nconv, nreq, faiss_system, found, db, resp>>

\* live_unasked: questions and transcript read in one `with` block
UnaskedRead(t) ==
    /\ pc[t] = "un_read"
    /\ loc' = [loc EXCEPT ![t].questions = UnaskedQuestions(St(t).questions),
                          ![t].convo_text = ConvoText(St(t).history, loc[t].conv),
                          ![t].hist_seen = St(t).history,
                          ![t].qs_seen = {UnaskedQuestions(St(t).questions)}]
    /\ lock' = NoThread
    /\ pc' = [pc EXCEPT ![t] = "un_rank"]
    /\ UNCHANGED <<LIVE_STATE, heap, cookie, conversations, nconv, nreq, faiss_system, found, db, resp>>

\* rank_questions_for_unasked, called by live_unasked and live_stop_bundle
RankCall(t, next) ==
    /\ \E llm \in LiveLLM(loc[t].questions) :
          loc' = [loc EXCEPT ![t].ranked =
                     rank_questions_for_unasked(loc[t].convo_text, loc[t].questions,
                                                llm).result,
                                ![t].hist_seen = <<>>, ![t].qs_seen = {}]
    /\ pc' = [pc EXCEPT ![t] = next]
    /\ UNCHANGED <<LIVE_STATE, heap, lock, cookie, conversations, nconv, nreq, faiss_system, found, db, resp>>

UnaskedRank(t) == pc[t] = "un_rank" /\ RankCall(t, "un_lock2")

\* the scores written back under the lock, then ranked.sort(...)
WriteBack(t, next) ==
    /\ heap' = [heap EXCEPT ![loc[t].st].questions =
                  WriteScores(St(t).questions, loc[t].ranked)]
    /\ loc' = [loc EXCEPT ![t].ranked = SortDesc(loc[t].ranked)]
    /\ lock' = NoThread
    /\ pc' = [pc EXCEPT ![t] = next]
    /\ UNCHANGED <<LIVE_STATE, cookie, conversations, nconv, nreq, faiss_system, found, db, resp>>

UnaskedWrite(t) == pc[t] = "un_write" /\ WriteBack(t, "done")

\* live_stop_bundle: the transcript read in a first `with` block
StopRead1(t) ==
    /\ pc[t] = "sb_read1"
    /\ loc' = [loc EXCEPT ![t].convo_text = ConvoText(St(t).history, loc[t].conv),
                          ![t].window = TRUE,
                          ![t].hist_seen = St(t).history,
                          ![t].qs_seen = {UnaskedQuestions(St(t).questions)}]
    /\ lock' = NoThread
    /\ pc' = [pc EXCEPT ![t] = "sb_bundle"]
    /\ UNCHANGED <<LIVE_STATE, heap, cookie, conversations, nconv, nreq, faiss_system, found, db, resp>>

\* build_listener_bundle: its text, or the placeholder when it raises
StopBundle(t) ==
    /\ pc[t] = "sb_bundle"
    /\ \E out \in {"listener", "placeholder"} :
          loc' = [loc EXCEPT ![t].listener_output = out]
    /\ pc' = [pc EXCEPT ![t] = "sb_lock2"]
    /\ UNCHANGED <<LIVE_STATE, heap, lock, cookie, conversations, nconv, nreq, faiss_system, found, db, resp>>

\* live_stop_bundle: the unasked questions read in a second `with` block
StopRead2(t) ==
    /\ pc[t] = "sb_read2"
    /\ loc' = [loc EXCEPT ![t].questions = UnaskedQuestions(St(t).questions),
                          ![t].window = FALSE]
    /\ lock' = NoThread
    /\ pc' = [pc EXCEPT ![t] = "sb_rank"]
    /\ UNCHANGED <<LIVE_STATE, heap, cookie, conversations, nconv, nreq, faiss_system, found, db, resp>>

StopRank(t) == pc[t] = "sb_rank" /\ RankCall(t, "sb_lock3")

StopWrite(t) == pc[t] = "sb_write" /\ WriteBack(t, "sb_lock4")

\* live_stop_bundle: the post-stop context stored under the lock
StopPost(t) ==
    /\ pc[t] = "sb_post"
    /\ heap' = [heap EXCEPT ![loc[t].st] =
                  StorePostStop(St(t), loc[t].convo_text, loc[t].listener_output,
                                loc[t].ranked, loc[t].now)]
    /\ lock' = NoThread
    /\ pc' = [pc EXCEPT ![t] = "done"]
    /\ UNCHANGED <<LIVE_STATE, cookie, conversations, nconv, loc, nreq, faiss_system, found, db, resp>>

\* live_followup_chat: the post-stop context read under the lock
FollowupRead(t) ==
    /\ pc[t] = "fu_read"
    /\ loc' = [loc EXCEPT ![t].convo_text =
                 IF Strip(St(t).post_stop.convo_text) = <<>>
                 THEN JoinLines(loc[t].conv) ELSE Strip(St(t).post_stop.convo_text),
                          ![t].ranked = St(t).post_stop.unasked,
                          ![t].listener_output = St(t).post_stop.listener_output]
    /\ lock' = NoThread
    /\ pc' = [pc EXCEPT ![t] = "fu_invoke"]
    /\ UNCHANGED <<LIVE_STATE, heap, cookie, conversations, nconv, nreq, faiss_system, found, db, resp>>

\* load_llm().invoke(messages): an answer, or a failure answered with 500
FollowupInvoke(t) ==
    /\ pc[t] = "fu_invoke"
    /\ \E ok \in BOOLEAN :
          /\ pc' = [pc EXCEPT ![t] = IF ok THEN "fu_lock2" ELSE "done"]
          /\ loc' = [loc EXCEPT ![t].status = IF ok THEN 200 ELSE 500]
    /\ UNCHANGED <<LIVE_STATE, heap, lock, cookie, conversations, nconv, nreq, faiss_system, found, db, resp>>

\* live_followup_chat: the turn saved under the lock
FollowupSave(t) ==
    /\ pc[t] = "fu_save"
    /\ heap' = [heap EXCEPT ![loc[t].st] =
                  SaveFollowup(St(t), Strip(loc[t].text), AnswerText, loc[t].now)]
    /\ lock' = NoThread
    /\ pc' = [pc EXCEPT ![t] = "done"]
    /\ UNCHANGED <<LIVE_STATE, cookie, conversations, nconv, loc, nreq, faiss_system, found, db, resp>>

\* _live_key() in _reset_live_state; reset_conv first sets session["conv"] = []
LiveKey(t) ==
    LET l == IF pc[t] = "rc_key" THEN [loc[t] EXCEPT !.conv = <<>>, !.mod = TRUE]
             ELSE loc[t]
        e == EnsureConversation(l)
    IN  /\ pc[t] \in {"rs_key", "rc_key"}
        /\ CreateConversation(e.created)
        /\ loc' = [loc EXCEPT ![t].sid = e.sid, ![t].conv = e.conv, ![t].mod = e.mod,
                              ![t].key = e.sid]
        /\ pc' = [pc EXCEPT ![t] = IF pc[t] = "rs_key" THEN "rs_lock" ELSE "rc_lock"]
        /\ UNCHANGED <<LIVE_STATE, heap, lock, cookie, nreq, faiss_system, found, db, resp>>

\* A variant of the reset that empties the plan of the key's state and leaves
\* the state in the store.
ResetPopPlanOnly(t) ==
    /\ pc[t] \in {"rs_pop", "rc_pop"}
    /\ heap' = IF LIVE_STATE[<<Uid, loc[t].key>>] = NoObj THEN heap
               ELSE [heap EXCEPT ![LIVE_STATE[<<Uid, loc[t].key>>]].questions = <<>>]
    /\ loc' = [loc EXCEPT ![t].popped = LIVE_STATE[<<Uid, loc[t].key>>] # NoObj]
    /\ lock' = NoThread
    /\ pc' = [pc EXCEPT ![t] = IF pc[t] = "rs_pop" THEN "done" ELSE "rc_create"]
    /\ UNCHANGED <<LIVE_STATE, cookie, conversations, nconv, nreq, faiss_system, found, db, resp>>

\* _reset_live_state: LIVE_STATE.pop(key, None) under the lock; popped records
\* whether the pop found a state
ResetPop(t) ==
    LET ls == [LIVE_STATE EXCEPT ![<<Uid, loc[t].key>>] = NoObj]
    IN  /\ pc[t] \in {"rs_pop", "rc_pop"}
        /\ LIVE_STATE' = ls
        /\ heap' = Collect(heap, ls, loc)
        /\ loc' = [loc EXCEPT ![t].popped = LIVE_STATE[<<Uid, loc[t].key>>] # NoObj]
        /\ lock' = NoThread
        /\ pc' = [pc EXCEPT ![t] = IF pc[t] = "rs_pop" THEN "done" ELSE "rc_create"]
        /\ UNCHANGED <<cookie, conversations, nconv, nreq, faiss_system, found, db, resp>>

\* reset_conv / new_conversation: session["id"] = create_conversation(...)
NewConversation(t) ==
    /\ pc[t] = "rc_create"
    /\ CreateConversation(TRUE)
    /\ loc' = [loc EXCEPT ![t].sid = nconv + 1, ![t].mod = TRUE]
    /\ pc' = [pc EXCEPT ![t] = "done"]
    /\ UNCHANGED <<LIVE_STATE, heap, lock, cookie, nreq, faiss_system, found, db, resp>>

\* the response: a modified session is written back to the cookie
Respond(t) ==
    LET l == [loc EXCEPT ![t] = IdleLoc]
    IN  /\ pc[t] = "done"
        /\ cookie' = IF loc[t].mod
                     THEN [cookie EXCEPT !.id = loc[t].sid, !.conv = loc[t].conv]
                     ELSE cookie
        /\ loc' = l
        /\ heap' = Collect(heap, LIVE_STATE, l)
        /\ pc' = [pc EXCEPT ![t] = "idle"]
        /\ UNCHANGED <<LIVE_STATE, lock, conversations, nconv, nreq, faiss_system, found, db, resp>>

\* auth._clear_conversation_session, in logout and in login
ClearConversationSession(user) ==
    cookie' = [user |-> user, id |-> NoCid, conv |-> <<>>]

\* the three requests below are answered in one step, sent while no other
\* request of the session is in flight
Logout ==
    /\ \A t \in Threads : pc[t] = "idle"
    /\ cookie.user
    /\ ClearConversationSession(FALSE)
    /\ UNCHANGED <<LIVE_STATE, heap, lock, conversations, nconv, pc, loc, nreq, faiss_system, found, db, resp>>

Login ==
    /\ \A t \in Threads : pc[t] = "idle"
    /\ ~cookie.user
    /\ ClearConversationSession(TRUE)
    /\ UNCHANGED <<LIVE_STATE, heap, lock, conversations, nconv, pc, loc, nreq, faiss_system, found, db, resp>>

\* api_delete_conversation: the conversation leaves the database
DeleteConversation(c) ==
    /\ \A t \in Threads : pc[t] = "idle"
    /\ cookie.user
    /\ c \in conversations
    /\ conversations' = conversations \ {c}
    /\ UNCHANGED <<LIVE_STATE, heap, lock, cookie, nconv, pc, loc, nreq, faiss_system, found, db, resp>>

(***************************************************************************)
(* The concurrent specification: two threads serve plan, mark,             *)
(* chat, unasked, stop-bundle and reset requests of one logged-in user.    *)
(***************************************************************************)
RequiredLive == {<<qABC>>, <<qABC2, qLong>>}

MarkTextsLive == {tPerm, tTwo}

Requests ==
    {Req("plan", r, <<>>) : r \in RequiredLive}
    \cup {Req("mark", <<>>, x) : x \in MarkTextsLive}
    \cup {Req("chat", <<>>, x) : x \in {tPerm, tBlank}}
    \cup {Req(op, <<>>, <<>>) : op \in {"unasked", "stop", "reset"}}

Step(t) ==
    \/ GetOrCreate(t)
    \/ Acquire(t)
    \/ PlanBody(t)
    \/ PlanReturn(t)
    \/ MarkBody(t)
    \/ AppendBody(t)
    \/ UnaskedRead(t)
    \/ UnaskedRank(t)
    \/ UnaskedWrite(t)
    \/ StopRead1(t)
    \/ StopBundle(t)
    \/ StopRead2(t)
    \/ StopRank(t)
    \/ StopWrite(t)
    \/ StopPost(t)
    \/ LiveKey(t)
    \/ ResetPop(t)
    \/ Respond(t)

Next ==
    \/ \E t \in Threads, rq \in Requests : Start(t, rq, MaxReq)
    \/ \E t \in Threads : Step(t)

Spec == InitLive /\ [][Next]_vars

(***************************************************************************)
(* The generation specification: the three handlers that call a slow       *)
(* generation capability, next to live_plan.                               *)
(***************************************************************************)
RequestsFollowup ==
    {Req("plan", <<qABC>>, <<>>), Req("unasked", <<>>, <<>>), Req("stop", <<>>, <<>>),
     Req("followup", <<>>, tPerm), Req("followup", <<>>, tBlank)}

StepFollowup(t) ==
    \/ GetOrCreate(t)
    \/ Acquire(t)
    \/ PlanBody(t)
    \/ PlanReturn(t)
    \/ UnaskedRead(t)
    \/ UnaskedRank(t)
    \/ UnaskedWrite(t)
    \/ StopRead1(t)
    \/ StopBundle(t)
    \/ StopRead2(t)
    \/ StopRank(t)
    \/ StopWrite(t)
    \/ StopPost(t)
    \/ FollowupRead(t)
    \/ FollowupInvoke(t)
    \/ FollowupSave(t)
    \/ Respond(t)

NextFollowup ==
    \/ \E t \in Threads, rq \in RequestsFollowup : Start(t, rq, MaxReqFollowup)
    \/ \E t \in Threads : StepFollowup(t)

SpecFollowup == InitLive /\ [][NextFollowup]_vars

(***************************************************************************)
(* The session specification: requests sent one after the other, between   *)
(* which the session moves to other conversations through reset_conv,      *)
(* login, logout and deletion.                                             *)
(***************************************************************************)
RequestsSession ==
    {Req("plan", <<qABC>>, <<>>), Req("reset", <<>>, <<>>), Req("reset_conv", <<>>, <<>>)}

StepSession(t) ==
    \/ GetOrCreate(t)
    \/ Acquire(t)
    \/ PlanBody(t)
    \/ PlanReturn(t)
    \/ LiveKey(t)
    \/ ResetPop(t)
    \/ NewConversation(t)
    \/ Respond(t)

NextSession ==
    \/ \E rq \in RequestsSession : Start("t1", rq, MaxReqSession)
    \/ StepSession("t1")
    \/ Logout
    \/ Login
    \/ \E c \in Cids : DeleteConversation(c)

SpecSession == Init /\ [][NextSession]_vars

(***************************************************************************)
(* The plan specification: one thread serves plan and mark requests one    *)
(* after the other, over a wider choice of texts.                          *)
(***************************************************************************)
tSub == <<"g", " ", "a", " ", "b", " ", "c">>

tHalf == <<"c", " ", "b", " ", "a", " ", "g", " ", "h", " ", "i">>

tMost == <<"d", " ", "c", " ", "b", " ", "a", " ", "g", " ", "h", " ", "i">>

RequiredPlan ==
    {<<qABC>>, <<qABC2, qLong>>, <<tBlank, qPunct, qLong>>, <<qLong, qABC, qABC2>>}

MarkTextsPlan == {tPerm, tTwo, tSub, tHalf, tMost, qPunct, tBlank}

RequestsPlan ==
    {Req("plan", r, <<>>) : r \in RequiredPlan}
    \cup {Req("mark", <<>>, x) : x \in MarkTextsPlan}

StepPlan(t) ==
    \/ GetOrCreate(t)
    \/ Acquire(t)
    \/ PlanBody(t)
    \/ PlanReturn(t)
    \/ MarkBody(t)
    \/ Respond(t)

NextPlan ==
    \/ \E rq \in RequestsPlan : Start("t1", rq, MaxReqPlan)
    \/ StepPlan("t1")

SpecPlan == Init /\ [][NextPlan]_vars

(***************************************************************************)
(* The history specification: _append_live_history called turn after turn. *)
(***************************************************************************)
StepHistory(t) ==
    \/ GetOrCreate(t)
    \/ Acquire(t)
    \/ AppendBody(t)
    \/ Respond(t)

NextHistory ==
    \/ Start("t1", Req("append", <<>>, tPerm), MaxAppends)
    \/ StepHistory("t1")

SpecHistory == Init /\ [][NextHistory]_vars

(***************************************************************************)
(* The append specification: _append_live_history called with any message, *)
(* blank ones included, between plan and reset requests.                   *)
(***************************************************************************)
RequestsAppend ==
    {Req("append", <<>>, x) : x \in {tPerm, tTwo, tBlank, <<>>}}
    \cup {Req("plan", <<qABC>>, <<>>), Req("reset", <<>>, <<>>)}

StepAppend(t) ==
    \/ GetOrCreate(t)
    \/ Acquire(t)
    \/ PlanBody(t)
    \/ PlanReturn(t)
    \/ AppendBody(t)
    \/ LiveKey(t)
    \/ ResetPop(t)
    \/ Respond(t)

NextAppend ==
    \/ \E rq \in RequestsAppend : Start("t1", rq, MaxReqAppend)
    \/ StepAppend("t1")

SpecAppend == Init /\ [][NextAppend]_vars

(***************************************************************************)
(* The ranking specification: rank_questions_for_unasked applied to a      *)
(* transcript, a question list and an outcome of the generation capability.*)
(***************************************************************************)
qGH == <<"g", " ", "h">>

tDE == <<"d", " ", "e">>

\* "How long has this lasted?"
qDuration ==
    <<"H", "o", "w", " ", "l", "o", "n", "g", " ", "h", "a", "s", " ", "t", "h", "i",
      "s", " ", "l", "a", "s", "t", "e", "d", "?">>

\* "Any family history?"
qFamily ==
    <<"A", "n", "y", " ", "f", "a", "m", "i", "l", "y", " ", "h", "i", "s", "t", "o",
      "r", "y", "?">>

\* "started three weeks ago"
tWeeks ==
    <<"s", "t", "a", "r", "t", "e", "d", " ", "t", "h", "r", "e", "e", " ", "w", "e",
      "e", "k", "s", " ", "a", "g", "o">>

\* "Patient: this started three weeks ago."
tWeeksTurn ==
    <<"P", "a", "t", "i", "e", "n", "t", ":", " ", "t", "h", "i", "s", " ", "s", "t",
      "a", "r", "t", "e", "d", " ", "t", "h", "r", "e", "e", " ", "w", "e", "e", "k",
      "s", " ", "a", "g", "o", ".">>

RankConvos == {<<>>, tPerm, tDE, tWeeks, tWeeksTurn}

\* twelve questions of one word each, no two similar
qTwelve ==
    <<<<"a">>, <<"b">>, <<"c">>, <<"d">>, <<"e">>, <<"f">>, <<"g">>, <<"h">>, <<"i">>,
      <<"j">>, <<"k">>, <<"l">>>>

RankQuestions ==
    {<<>>, <<tBlank>>, <<qABC>>, <<qABC, qABC2>>, <<qLong, qABC>>, <<qABC, tBlank, qLong>>,
     <<qGH, qABC, qLong>>, qTwelve, <<qDuration, qFamily>>}

Junk == Lex("junk")

QScore(q, n, d) == Obj(StrVal(q), NumVal(n, d))

Answer(text) == [fail |-> "none", scorer |-> TRUE, text |-> text]

\* outcomes in which no result of the scorer can be used
RankFailures ==
    {[fail |-> "load_llm", scorer |-> TRUE, text |-> <<>>],
     [fail |-> "load_agents", scorer |-> TRUE, text |-> <<>>],
     [fail |-> "run_task", scorer |-> TRUE, text |-> <<>>],
     [fail |-> "none", scorer |-> FALSE, text |-> <<>>],
     Answer(<<>>),
     Answer(<<Junk>>),
     Answer(<<Lex("["), QScore(qABC, 1, 2)>>),
     Answer(<<Lex("["), QScore(qABC, 1, 2), Lex(","), Lex("]")>>),
     Answer(<<QScore(qABC, 1, 2)>>),
     Answer(<<Lex("scalar")>>),
     Answer(<<Lex("["), Lex("]")>>),
     Answer(<<Lex("["), Lex("scalar"), Lex("]")>>),
     Answer(<<Lex("["), Obj(NoVal, NumVal(1, 1)), Lex("]")>>),
     Answer(<<Lex("["), QScore(tBlank, 1, 1), Lex("]")>>),
     Answer(<<Lex("["), QScore(tDE, 1, 1), Lex("]")>>),
     Answer(<<Lex("["), QScore(qABC, 1, 1), Lex(","),
              Obj([k |-> "nonstr", v |-> <<>>], NumVal(1, 1)), Lex("]")>>)}

\* the scorer scores question i with 0.6, 0.7 or 0.8 when i <= high and with
\* 0.0 .. 0.5 otherwise
GradedScore(i, high) == IF i <= high THEN Frac(6 + (i % 3), 10) ELSE Frac(i % 6, 10)

GradedText(questions, high) ==
    LET n == Len(questions)
    IN  [p \in 1..(IF n = 0 THEN 0 ELSE 2 * n - 1) |->
            IF p % 2 = 1
            THEN Obj(StrVal(questions[(p + 1) \div 2]),
                     [k |-> "num", v |-> GradedScore((p + 1) \div 2, high)])
            ELSE Lex(",")]

Graded(questions, high) == Answer(<<Lex("[")>> \o GradedText(questions, high) \o <<Lex("]")>>)

GradedHighs == {4, 5, 10, 11}

Reversed(items) == [i \in 1..Len(items) |-> items[Len(items) + 1 - i]]

\* outcomes in which the scorer's list names questions
RankAnswers(questions) ==
    {Graded(questions, high) : high \in GradedHighs} \cup
    {EchoLLM(questions, <<1, 2>>),
     EchoLLM(Reversed(questions), <<7, 10>>),
     EchoLLM(FirstN(questions, 1), <<9, 10>>),
     EchoLLM(FirstN(questions, 2) \o FirstN(questions, 1), <<4, 5>>),
     Answer(<<Junk, Lex("["), QScore(qABC2, 7, 10), Lex(","), QScore(tDE, 1, 1), Lex("]"),
              Junk>>),
     Answer(<<Lex("["), QScore(qLong, 3, 2), Lex(","),
              Obj(StrVal(qABC), [k |-> "bad", v |-> <<>>]), Lex("]")>>),
     Answer(<<Lex("["), QScore(qLong, 0 - 1, 2), Lex(","),
              Obj(StrVal(qABC), [k |-> "nan", v |-> <<>>]), Lex("]")>>)}

InitRank ==
    /\ faiss_system = NewFaiss
    /\ found = NoCall
    /\ db = EmptyDb
    /\ resp = NoResp
    /\ LIVE_STATE = [k \in Keys |-> NoObj]
    /\ heap = [o \in ObjIds |-> FreeCell]
    /\ lock = NoThread
    /\ cookie = [user |-> TRUE, id |-> NoCid, conv |-> <<>>]
    /\ conversations = {}
    /\ nconv = 0
    /\ nreq = 0
    /\ pc = [t \in Threads |-> IF t = "t1" THEN "rk_call" ELSE "idle"]
    /\ \E convo_text \in RankConvos, questions \in RankQuestions :
         \E llm \in RankFailures \cup RankAnswers(questions) :
            loc = [t \in Threads |->
                     IF t = "t1"
                     THEN [IdleLoc EXCEPT !.op = "rank", !.convo_text = convo_text,
                                          !.questions = questions, !.llm = llm]
                     ELSE IdleLoc]

RankApply(t) ==
    LET r == rank_questions_for_unasked(loc[t].convo_text, loc[t].questions, loc[t].llm)
    IN  /\ pc[t] = "rk_call"
        /\ loc' = [loc EXCEPT ![t].ranked = r.result, ![t].calls = r.calls]
        /\ pc' = [pc EXCEPT ![t] = "rk_done"]
        /\ UNCHANGED <<LIVE_STATE, heap, lock, cookie, conversations, nconv, nreq, faiss_system, found, db, resp>>

NextRank == \E t \in Threads : RankApply(t)

SpecRank == InitRank /\ [][NextRank]_vars

(***************************************************************************)
(* Properties of the plan store.                                           *)
(***************************************************************************)
PlanOf(h, o) == h[o].questions

\* C1: for a key that is not reset by the step, every plan entry that is
\* asked keeps its place, its key and asked = TRUE after the step, whichever
\* of live_plan, live_mark_asked, live_unasked, live_stop_bundle takes it.
AskedStaysAsked ==
    [][\A k \in Keys :
          (LIVE_STATE[k] # NoObj /\ LIVE_STATE'[k] = LIVE_STATE[k]) =>
             LET old == PlanOf(heap, LIVE_STATE[k])
                 new == PlanOf(heap', LIVE_STATE[k])
             IN  \A i \in 1..Len(old) :
                    old[i].asked =>
                       /\ i <= Len(new)
                       /\ new[i].nq = old[i].nq
                       /\ new[i].asked]_vars

\* an asked entry has outlived a later mark_asked with unrelated text
AskedOutlivesMark ==
    \E t \in Threads :
       /\ pc[t] = "done"
       /\ loc[t].op = "mark"
       /\ loc[t].matched = 0
       /\ LIVE_STATE[<<Uid, loc[t].key>>] = loc[t].st
       /\ \E i \in 1..Len(St(t).questions) : St(t).questions[i].asked

\* the words of a normalized text: its maximal runs without a space
IsWordAt(s, i, j) ==
    /\ i <= j
    /\ \A m \in i..j : s[m] # " "
    /\ i = 1 \/ s[i - 1] = " "
    /\ j = Len(s) \/ s[j + 1] = " "

Words(s) == {SubSeq(s, i, j) : <<i, j>> \in {x \in (1..Len(s)) \X (1..Len(s)) :
                                                IsWordAt(s, x[1], x[2])}}

Occurs(a, b) ==
    \E p \in 0..(Len(b) - Len(a)) : \A i \in 1..Len(a) : b[p + i] = a[i]

\* the asked-detection rule of the specification, written out on words
AskedRule(nq, nf) ==
    LET shared == Cardinality(Words(nq) \cap Words(nf))
        least  == IF Cardinality(Words(nq)) <= Cardinality(Words(nf))
                  THEN Cardinality(Words(nq)) ELSE Cardinality(Words(nf))
    IN  \/ Occurs(nq, nf)
        \/ shared >= 3 /\ 100 * shared >= 55 * least

PlanStep(t) == pc[t] = "plan_cs" /\ pc'[t] = "plan_ret"

PlanReturnStep(t) == pc[t] = "plan_ret" /\ pc'[t] = "done"

MarkStep(t) == pc[t] = "mark_cs" /\ pc'[t] = "done"

\* C2: a live_plan call inserts, for its usable items (text not blank, normalized
\* text not empty), one entry per normalized key the plan does not hold yet,
\* with asked = FALSE, no score and added_at = now; the entries the plan held
\* are unchanged; `added` is the number inserted, the plan grows by `added`,
\* and `total` is the size of the resulting plan.
PlanInsertsOncePerKey ==
    [][\A t \in Threads :
          /\ PlanStep(t) =>
               LET old == PlanOf(heap, loc[t].st)
                   new == PlanOf(heap', loc[t].st)
                   req == loc[t].required
                   added == loc'[t].added
                   wanted == {normalize_text(Strip(req[j])) : j \in 1..Len(req)} \ {<<>>}
               IN  /\ Len(new) = Len(old) + added
                   /\ SubSeq(new, 1, Len(old)) = old
                   /\ added = Cardinality(wanted \ PlanKeys(old))
                   /\ PlanKeys(new) = PlanKeys(old) \cup wanted
                   /\ \A i \in 1..Len(new), j \in 1..Len(new) :
                         new[i].nq = new[j].nq => i = j
                   /\ \A i \in (Len(old) + 1)..Len(new) :
                         /\ ~new[i].asked
                         /\ new[i].score = <<NoScore, 1>>
                         /\ new[i].added_at = loc[t].now
                         /\ new[i].nq = normalize_text(new[i].question)
                         /\ \E j \in 1..Len(req) : new[i].question = Strip(req[j])
          /\ PlanReturnStep(t) =>
               /\ loc'[t].total = Len(PlanOf(heap', loc[t].st))
               /\ heap' = heap]_vars

\* a call has inserted some of its items next to entries the plan held
PlanGrewBySome ==
    \E t \in Threads :
       /\ pc[t] = "done"
       /\ loc[t].op = "plan"
       /\ 0 < loc[t].added
       /\ loc[t].added < Len(loc[t].required)
       /\ loc[t].added < loc[t].total
       /\ loc[t].total = Len(St(t).questions)

\* C3: a live_mark_asked call sets asked on exactly the entries that were not
\* asked and meet the rule (the key is a substring of the normalized text, or
\* at least 3 tokens are shared and shared / min(|q|, |text|) >= 0.55), leaves
\* every other entry as it was, returns the number of entries it flipped, and
\* leaves no entry that a repeat of the call would flip.
MarkFlipsExactlyMatches ==
    [][\A t \in Threads :
          MarkStep(t) =>
             LET old == PlanOf(heap, loc[t].st)
                 new == PlanOf(heap', loc[t].st)
                 nf  == normalize_text(loc[t].text)
                 flipped == {i \in 1..Len(old) : ~old[i].asked /\ new[i].asked}
             IN  /\ Len(new) = Len(old)
                 /\ \A i \in 1..Len(old) :
                       new[i] = IF ~old[i].asked /\ AskedRule(old[i].nq, nf)
                                THEN [old[i] EXCEPT !.asked = TRUE]
                                ELSE old[i]
                 /\ loc'[t].matched = Cardinality(flipped)
                 /\ MarkLoop(new, Strip(loc[t].text)).matched = 0
                 /\ MarkLoop(new, Strip(loc[t].text)).questions = new]_vars

\* a call has marked one entry and left another, not matching, unasked
MarkedSomeLeftSome ==
    \E t \in Threads :
       /\ pc[t] = "done"
       /\ loc[t].op = "mark"
       /\ loc[t].matched > 0
       /\ \E i \in 1..Len(St(t).questions) : ~St(t).questions[i].asked
       /\ \E i \in 1..Len(St(t).questions) :
             St(t).questions[i].asked /\ ~IsSubstring(St(t).questions[i].nq,
                                                       normalize_text(loc[t].text))

(***************************************************************************)
(* Properties of the reads and of the lock.                                *)
(***************************************************************************)
RankPcs == {"un_rank", "sb_rank"}

GenerationPcs == {"un_rank", "sb_bundle", "sb_rank", "fu_invoke"}

\* C4: when a live_unasked or live_stop_bundle request is about to call the
\* ranker, the unasked list it passes is one the state held at a moment when
\* its history was the one the request's transcript was built from.
ReadsAtOnePoint ==
    \A t \in Threads : pc[t] \in RankPcs => loc[t].questions \in loc[t].qs_seen

\* C5: a thread inside rank_questions_for_unasked, build_listener_bundle or
\* the follow-up invoke does not hold LIVE_STATE_LOCK.
LockFreeWhileGenerating ==
    \A t \in Threads : pc[t] \in GenerationPcs => lock # t

\* another thread is inside a critical section of the plan store while a
\* generation call runs
PlanRunsDuringGeneration ==
    \E t \in Threads, u \in Threads :
       /\ t # u
       /\ pc[t] \in GenerationPcs
       /\ pc[u] = "plan_cs"
       /\ lock = u

(***************************************************************************)
(* Properties of reset and of the session's conversation.                  *)
(***************************************************************************)
ResetStep(t) == pc[t] \in {"rs_pop", "rc_pop"} /\ pc'[t] # pc[t]

\* C6: _reset_live_state leaves the store without the state of its key and
\* with every other key's state as it was; on an absent key it changes nothing
\* (so a second call in a row changes nothing); and a state created afterwards
\* has an empty plan, empty history, no post-stop context and no follow-up.
ResetRemovesWholeState ==
    [][/\ \A t \in Threads :
            ResetStep(t) =>
               LET key == <<Uid, loc[t].key>>
               IN  /\ LIVE_STATE' = [LIVE_STATE EXCEPT ![key] = NoObj]
                   /\ [LIVE_STATE' EXCEPT ![key] = NoObj] = LIVE_STATE'
                   /\ \A k \in Keys \ {key} :
                         LIVE_STATE[k] # NoObj => heap'[LIVE_STATE[k]] = heap[LIVE_STATE[k]]
                   /\ LIVE_STATE[key] = NoObj => heap' = heap
       /\ \A k \in Keys :
            (LIVE_STATE[k] = NoObj /\ LIVE_STATE'[k] # NoObj) =>
               LET st == heap'[LIVE_STATE'[k]]
               IN  /\ st.live
                   /\ st.questions = <<>>
                   /\ st.history = <<>>
                   /\ st.post_stop = NoPostStop
                   /\ ~st.has_followup
                   /\ st.followup = <<>>]_vars

\* a reset has removed a state that held a plan, while another key kept its state
ResetRemovedAState ==
    \E t \in Threads :
       /\ pc[t] = "done"
       /\ loc[t].op = "reset"
       /\ loc[t].popped
       /\ LIVE_STATE[<<Uid, loc[t].key>>] = NoObj
       /\ \E k \in Keys : LIVE_STATE[k] # NoObj /\ heap[LIVE_STATE[k]].questions # <<>>

\* C7: once no request is in flight, the store holds no state under a
\* conversation key of the user other than the session's current one.
NoStateUnderPreviousKey ==
    ((\A t \in Threads : pc[t] = "idle") /\ cookie.id # NoCid) =>
       \A c \in Cids \ {cookie.id} : LIVE_STATE[<<Uid, c>>] = NoObj

(***************************************************************************)
(* Properties of the history.                                              *)
(***************************************************************************)
AppendStep(t) == pc[t] = "ap_cs" /\ pc'[t] = "done"

\* C8: the history never holds more than 400 entries; an append puts the new
\* entry at the end, and when that makes 401 entries the history becomes the
\* last 300 of them, in order.
HistoryBounded ==
    /\ [](\A o \in ObjIds : Len(heap[o].history) <= 400)
    /\ [][\A t \in Threads :
             AppendStep(t) =>
                LET old == heap[loc[t].st].history
                    new == heap'[loc[t].st].history
                    all == Append(old, [role |-> RoleA, message |-> Strip(loc[t].text),
                                        ts |-> loc[t].now])
                IN  IF Len(all) <= 400 THEN new = all
                    ELSE /\ Len(new) = 300
                         /\ \A i \in 1..300 : new[i] = all[Len(all) - 300 + i]]_vars

\* the 401st append has evicted the oldest 101 entries
HistoryEvicted ==
    \E o \in ObjIds :
       /\ Len(heap[o].history) = 300
       /\ heap[o].history[1].ts = 102
       /\ heap[o].history[300].ts = 401

BlankAppend(t) == loc[t].op = "append" /\ Strip(loc[t].text) = <<>>

\* C9: no step of an _append_live_history call with a blank message changes
\* the store: no key gains or loses a state and no stored state changes.
BlankAppendLeavesStore ==
    [][\A t \in Threads :
          (BlankAppend(t) /\ pc'[t] # pc[t]) =>
             /\ LIVE_STATE' = LIVE_STATE
             /\ \A k \in Keys :
                   LIVE_STATE[k] # NoObj => heap'[LIVE_STATE[k]] = heap[LIVE_STATE[k]]]_vars

(***************************************************************************)
(* The deduplication specification: deduplicate_questions applied to a     *)
(* question list, and once more to its own result.                         *)
(***************************************************************************)
qABCD == <<"a", " ", "b", " ", "c", " ", "d">>

qABCDE == <<"a", " ", "b", " ", "c", " ", "d", " ", "e">>

\* "Do you smoke?"
qSmoke ==
    <<"D", "o", " ", "y", "o", "u", " ", "s", "m", "o", "k", "e", "?">>

\* "do you smoke tobacco"
qTobacco ==
    <<"d", "o", " ", "y", "o", "u", " ", "s", "m", "o", "k", "e", " ", "t", "o", "b",
      "a", "c", "c", "o">>

DedupTexts == {qABC, qABC2, qABCD, qABCDE, qGH, tBlank, qPunct, qSmoke, qTobacco}

MaxDedup == 3

RECURSIVE ListsUpTo(_, _)
ListsUpTo(S, n) ==
    IF n = 0 THEN {<<>>}
    ELSE LET shorter == ListsUpTo(S, n - 1)
         IN  shorter \cup {Append(l, x) : l \in shorter, x \in S}

InitDedup ==
    /\ faiss_system = NewFaiss
    /\ found = NoCall
    /\ db = EmptyDb
    /\ resp = NoResp
    /\ LIVE_STATE = [k \in Keys |-> NoObj]
    /\ heap = [o \in ObjIds |-> FreeCell]
    /\ lock = NoThread
    /\ cookie = [user |-> TRUE, id |-> NoCid, conv |-> <<>>]
    /\ conversations = {}
    /\ nconv = 0
    /\ nreq = 0
    /\ pc = [t \in Threads |-> IF t = "t1" THEN "dd_call" ELSE "idle"]
    /\ \E given \in ListsUpTo(DedupTexts, MaxDedup) :
          loc = [t \in Threads |->
                   IF t = "t1" THEN [IdleLoc EXCEPT !.op = "dedup", !.required = given]
                   ELSE IdleLoc]

\* questions = deduplicate_questions(questions)
DedupApply(t) ==
    /\ pc[t] = "dd_call"
    /\ loc' = [loc EXCEPT ![t].questions = deduplicate_questions(loc[t].required)]
    /\ pc' = [pc EXCEPT ![t] = "dd_once"]
    /\ UNCHANGED <<LIVE_STATE, heap, lock, cookie, conversations, nconv, nreq, faiss_system, found, db, resp>>

\* deduplicate_questions applied to its own result
DedupAgain(t) ==
    /\ pc[t] = "dd_once"
    /\ loc' = [loc EXCEPT ![t].questions = deduplicate_questions(loc[t].questions)]
    /\ pc' = [pc EXCEPT ![t] = "dd_twice"]
    /\ UNCHANGED <<LIVE_STATE, heap, lock, cookie, conversations, nconv, nreq, faiss_system, found, db, resp>>

NextDedup == \E t \in Threads : DedupApply(t) \/ DedupAgain(t)

SpecDedup == InitDedup /\ [][NextDedup]_vars

(***************************************************************************)
(* medical_case_faiss.MedicalCaseFAISS.  A case is [case_id, text]: its    *)
(* id (NoCaseId when the JSON object has none) and the text that           *)
(* _extract_case_text builds from it, BlankText when that text is blank.   *)
(* The encoder maps a text to its normalized vector; the inner product of  *)
(* a query vector and a case vector is a similarity in hundredths.         *)
(***************************************************************************)
NoCaseId == 0

BlankText == 0

SearchCap == 50

Case(case_id, text) == [case_id |-> case_id, text |-> text]

\* self.model.encode followed by faiss.normalize_L2
Encode(text) == [of |-> text]

\* IndexFlatIP: the inner product of the normalized query and case vectors
Similarity(query, vector) ==
    IF vector.of = query THEN 100
    ELSE IF (vector.of + query) % 2 = 0 THEN 60
    ELSE 30

\* the slot faiss fills when fewer vectors exist than were asked for
NoNeighbour == [similarity |-> 0 - 1000, idx |-> 0 - 1]

\* index.search(query, search_k): the search_k nearest vectors, similarity
\* descending, positions 0-based; vectors of equal similarity in any order
IndexSearch(vectors, query, search_k) ==
    LET n == Len(vectors)
        orders == {p \in [1..n -> 1..n] :
                     /\ \A i, j \in 1..n : i # j => p[i] # p[j]
                     /\ \A i \in 1..(n - 1) :
                           Similarity(query, vectors[p[i]])
                              >= Similarity(query, vectors[p[i + 1]])}
    IN  {[i \in 1..search_k |->
            IF i <= n
            THEN [similarity |-> Similarity(query, vectors[p[i]]), idx |-> p[i] - 1]
            ELSE NoNeighbour] : p \in orders}

\* the loop over zip(similarities[0], indices[0])
RECURSIVE CollectResults(_, _, _, _, _)
CollectResults(candidates, cases, k, similarity_threshold, results) ==
    IF candidates = <<>> THEN results
    ELSE LET c == Head(candidates)
             hit == c.idx >= 0 /\ c.idx < Len(cases) /\ c.similarity >= similarity_threshold
             grown == IF hit
                      THEN Append(results, [case_id |-> cases[c.idx + 1].case_id,
                                            similarity_score |-> c.similarity,
                                            idx |-> c.idx])
                      ELSE results
         IN  IF hit /\ Len(grown) >= k THEN grown
             ELSE CollectResults(Tail(candidates), cases, k, similarity_threshold, grown)

\* A variant that keeps every case of the JSON file.
ProcessedCasesAll(cases_data) ==
    [i \in 1..Len(cases_data) |->
        IF cases_data[i].case_id = NoCaseId
        THEN [cases_data[i] EXCEPT !.case_id = i]
        ELSE cases_data[i]]

\* the cases of the JSON file that have text, each with its case_id
ProcessedCases(cases_data) ==
    LET named == [i \in 1..Len(cases_data) |->
                     IF cases_data[i].case_id = NoCaseId
                     THEN [cases_data[i] EXCEPT !.case_id = i]
                     ELSE cases_data[i]]
    IN  SelectSeq(named, LAMBDA case : case.text # BlankText)

Outcome(op, raised) == [NoCall EXCEPT !.op = op, !.raised = raised]

\* the outcome of build_database on the cases read from the JSON file
Built(cases_data, raised) == [Outcome("build", raised) EXCEPT !.given = cases_data]

\* inputs: JSON corpora, index files and metadata files ([ok, data]; ok is
\* FALSE for a file that cannot be read), queries, k and thresholds
File(data) == [ok |-> TRUE, data |-> data]

NoFile == [ok |-> FALSE, data |-> <<>>]

Corpora ==
    {NoFile,
     File(<<>>),
     File(<<Case(NoCaseId, BlankText)>>),
     File(<<Case(NoCaseId, BlankText), Case(NoCaseId, 1), Case(NoCaseId, 2)>>),
     File(<<Case(9, 2), Case(NoCaseId, 1)>>),
     File(<<Case(NoCaseId, 1), Case(NoCaseId, 2), Case(NoCaseId, 3)>>),
     File(<<Case(NoCaseId, 3), Case(8, 3)>>)}

IndexFiles ==
    {NoFile, File(<<Encode(1), Encode(2)>>), File(<<Encode(2), Encode(1), Encode(3)>>)}

MetadataFiles ==
    {NoFile, File(<<Case(1, 1), Case(2, 2)>>), File(<<Case(1, 2), Case(2, 1), Case(3, 3)>>),
     File(<<Case(1, 2)>>)}

Queries == {1, 2, 4}

SearchKs == {0, 1, 2, 5}

Thresholds == {30, 50, 99}

Others == <<LIVE_STATE, heap, lock, cookie, conversations, nconv, pc, loc, nreq, db, resp>>

\* MedicalCaseFAISS.build_database: self.cases is assigned before the check
\* for an empty corpus and before the encoder runs
build_database ==
    \E cases_data \in Corpora, encoded \in BOOLEAN :
       LET processed_cases == ProcessedCases(cases_data.data)
       IN  /\ IF ~cases_data.ok
              THEN /\ faiss_system' = faiss_system
                   /\ found' = Built(<<>>, TRUE)
              ELSE IF processed_cases = <<>> \/ ~encoded
              THEN /\ faiss_system' = [faiss_system EXCEPT !.cases = processed_cases]
                   /\ found' = Built(cases_data.data, TRUE)
              ELSE /\ faiss_system' =
                         [index |-> [present |-> TRUE,
                                     vectors |-> [i \in 1..Len(processed_cases) |->
                                                     Encode(processed_cases[i].text)]],
                          cases |-> processed_cases]
                   /\ found' = Built(cases_data.data, FALSE)
           /\ UNCHANGED Others

\* MedicalCaseFAISS.load_index: self.index is assigned before the metadata
\* file is opened
load_index ==
    \E index_file \in IndexFiles, metadata_file \in MetadataFiles :
       /\ IF ~index_file.ok
          THEN /\ faiss_system' = faiss_system
               /\ found' = Outcome("load", TRUE)
          ELSE IF ~metadata_file.ok
          THEN /\ faiss_system' = [faiss_system EXCEPT
                                     !.index = [present |-> TRUE, vectors |-> index_file.data]]
               /\ found' = Outcome("load", TRUE)
          ELSE /\ faiss_system' = [index |-> [present |-> TRUE, vectors |-> index_file.data],
                                   cases |-> metadata_file.data]
               /\ found' = Outcome("load", FALSE)
       /\ UNCHANGED Others

\* MedicalCaseFAISS.search_similar_cases; index.search with search_k = 0
\* either fails its k > 0 check or returns no neighbour, by faiss version
search_similar_cases ==
    \E query \in Queries, k \in SearchKs, similarity_threshold \in Thresholds :
       LET cases == faiss_system.cases
           search_k == IF Len(cases) < SearchCap THEN Len(cases) ELSE SearchCap
           call == [NoCall EXCEPT !.op = "search", !.query = query, !.k = k,
                                  !.threshold = similarity_threshold]
       IN  /\ IF ~faiss_system.index.present
              THEN found' = [call EXCEPT !.raised = TRUE]
              ELSE \/ /\ search_k = 0
                      /\ found' = [call EXCEPT !.raised = TRUE]
                   \/ \E candidates \in
                         IndexSearch(faiss_system.index.vectors, query, search_k) :
                         found' = [call EXCEPT
                                     !.candidates = candidates,
                                     !.results = CollectResults(candidates, cases, k,
                                                                similarity_threshold, <<>>)]
           /\ UNCHANGED <<faiss_system, LIVE_STATE, heap, lock, cookie, conversations, nconv,
                          pc, loc, nreq, db, resp>>

NextFaiss == build_database \/ load_index \/ search_similar_cases

SpecFaiss == Init /\ [][NextFaiss]_vars

(***************************************************************************)
(* admin.conversation_disease_likelihoods.  The cases returned by          *)
(* search_similar_cases(patient_text, k=8, similarity_threshold=0.05) are  *)
(* an input: a list of [similarity_score, Suspected_illness], similarity   *)
(* in hundredths, Suspected_illness a dict (its keys in insertion order),  *)
(* a string or nothing.  The labels, the symptom counts and the percentages*)
(* of the response are not followed.                                       *)
(***************************************************************************)
\* the characters of condition names, by code point
CodePoints ==
    <<" ", "A", "D", "H", "P", "a", "b", "c", "d", "e", "f", "g", "h", "i", "j", "k", "l",
      "m", "n", "o", "p", "q", "r", "s", "t", "u", "v", "w", "x", "y", "z">>

CodePoint(ch) == CHOOSE i \in 1..Len(CodePoints) : CodePoints[i] = ch

\* Python's a < b on strings
RECURSIVE StrLess(_, _)
StrLess(a, b) ==
    IF b = <<>> THEN FALSE
    ELSE IF a = <<>> THEN TRUE
    ELSE IF Head(a) = Head(b) THEN StrLess(Tail(a), Tail(b))
    ELSE CodePoint(Head(a)) < CodePoint(Head(b))

TopDiseases == 5

\* weights[name] += sim on a dict kept as a list of [disease, weight] in
\* insertion order
AddWeight(weights, name, sim) ==
    IF \E i \in 1..Len(weights) : weights[i].disease = name
    THEN [i \in 1..Len(weights) |->
            IF weights[i].disease = name
            THEN [weights[i] EXCEPT !.weight = @ + sim]
            ELSE weights[i]]
    ELSE Append(weights, [disease |-> name, weight |-> sim])

RECURSIVE AddNames(_, _, _)
AddNames(weights, names, sim) ==
    IF names = <<>> THEN weights
    ELSE AddNames(IF Strip(Head(names)) # <<>>
                  THEN AddWeight(weights, Strip(Head(names)), sim)
                  ELSE weights,
                  Tail(names), sim)

\* the loop over the results
RECURSIVE DiseaseWeights(_, _)
DiseaseWeights(results, weights) ==
    IF results = <<>> THEN weights
    ELSE LET r == Head(results)
             sim == IF r.similarity_score > 0 THEN r.similarity_score ELSE 0
         IN  DiseaseWeights(Tail(results),
                            IF r.Suspected_illness.k = "none" THEN weights
                            ELSE AddNames(weights, r.Suspected_illness.names, sim))

\* the sort key (-weight, disease)
KeyLess(x, y) ==
    \/ x.weight > y.weight
    \/ x.weight = y.weight /\ StrLess(x.disease, y.disease)

\* sorted(..., key=...): stable
RECURSIVE SortedByKey(_)
SortedByKey(items) ==
    IF items = <<>> THEN <<>>
    ELSE LET last == items[Len(items)]
             rest == SortedByKey(SubSeq(items, 1, Len(items) - 1))
             n    == Cardinality({i \in 1..Len(rest) : ~KeyLess(last, rest[i])})
         IN  SubSeq(rest, 1, n) \o <<last>> \o SubSeq(rest, n + 1, Len(rest))

RankedDiseases(results) == FirstN(SortedByKey(DiseaseWeights(results, <<>>)), TopDiseases)

\* inputs
Sus(names) == [k |-> "dict", names |-> names]

SusStr(name) == [k |-> "str", names |-> <<name>>]

NoSus == [k |-> "none", names |-> <<>>]

Hit(similarity_score, sus) == [similarity_score |-> similarity_score, Suspected_illness |-> sus]

ResultLists ==
    {<<>>,
     <<Hit(50, Sus(<<<<"b">>>>)), Hit(50, Sus(<<<<"a">>>>))>>,
     <<Hit(50, Sus(<<<<"a">>>>)), Hit(50, Sus(<<<<"b">>>>))>>,
     <<Hit(70, SusStr(<<"b">>)), Hit(30, Sus(<<<<" ", "a">>, <<"b", " ">>>>)),
       Hit(30, Sus(<<<<"a">>>>))>>,
     <<Hit(80, Sus(<<<<"f">>, <<"e">>, <<"d">>>>)), Hit(60, Sus(<<<<"c">>, <<"b">>, <<"a">>>>)),
       Hit(60, SusStr(<<" ", "a">>)), Hit(20, Sus(<<<<" ">>, <<"D">>>>)), Hit(7, NoSus)>>,
     <<Hit(80, Sus(<<<<"d">>, <<"e">>, <<"f">>>>)), Hit(60, SusStr(<<"a">>)),
       Hit(60, Sus(<<<<"a">>, <<"b">>, <<"c">>>>)), Hit(20, Sus(<<<<"D">>>>))>>,
     <<Hit(60, Sus(<<<<"b">>>>)), Hit(50, Sus(<<<<"a">>, <<" ", "a">>>>))>>}

MaxReqLikelihood == 2

\* the conversations that are analysed
Analysed == {1, 2}

MaxMessages == 2

InitLikelihood ==
    /\ faiss_system = NewFaiss
    /\ found = NoCall
    /\ db = [EmptyDb EXCEPT !.likelihoods = [c \in Analysed |-> NoRow],
                            !.messages = [c \in Analysed |-> <<>>]]
    /\ resp = NoResp
    /\ LIVE_STATE = [k \in Keys |-> NoObj]
    /\ heap = [o \in ObjIds |-> FreeCell]
    /\ lock = NoThread
    /\ cookie = [user |-> TRUE, id |-> NoCid, conv |-> <<>>]
    /\ conversations = {}
    /\ nconv = 0
    /\ pc = [t \in Threads |-> "idle"]
    /\ loc = [t \in Threads |-> IdleLoc]
    /\ nreq = 0

\* models.log_message: one more message row of the conversation, stamped
\* with the time of logging
log_message ==
    \E cid \in Analysed :
       /\ Len(db.messages[cid]) < MaxMessages
       /\ db' = [db EXCEPT !.messages[cid] = Append(@, nreq)]
       /\ UNCHANGED <<LIVE_STATE, heap, lock, cookie, conversations, nconv, pc, loc, nreq,
                      faiss_system, found, resp>>

\* A variant that returns a stored snapshot to a forced request too.
ReuseSnapshotForced(existing, force) == existing.present

\* if existing is not None and not force
ReuseSnapshot(existing, force) == existing.present /\ ~force

\* GET /admin/api/conversation/<cid>/disease_likelihoods, served at time nreq'
conversation_disease_likelihoods ==
    \E cid \in Analysed, force \in BOOLEAN, results \in ResultLists :
       LET existing == db.likelihoods[cid]
           ranked == RankedDiseases(results)
           \* the search runs on the computing path only
           answer(status, source, top, at) ==
              [op |-> "likelihoods", cid |-> cid, force |-> force, status |-> status,
               source |-> source, top_diseases |-> top, analyzed_at |-> at,
               results |-> IF source = "computed" THEN results ELSE <<>>]
       IN  /\ nreq < MaxReqLikelihood
           /\ nreq' = nreq + 1
           /\ IF ReuseSnapshot(existing, force)
              THEN /\ resp' = answer(200, "db", existing.top_diseases, existing.analyzed_at)
                   /\ db' = db
              ELSE IF db.messages[cid] = <<>>
              THEN /\ resp' = answer(404, "none", <<>>, 0)
                   /\ db' = db
              ELSE /\ resp' = answer(200, "computed", ranked, nreq')
                   /\ db' = [db EXCEPT !.likelihoods[cid] =
                                [present |-> TRUE, top_diseases |-> ranked,
                                 analyzed_at |-> nreq']]
           /\ UNCHANGED <<LIVE_STATE, heap, lock, cookie, conversations, nconv, pc, loc,
                          faiss_system, found>>

NextLikelihood == log_message \/ conversation_disease_likelihoods

SpecLikelihood == InitLikelihood /\ [][NextLikelihood]_vars

(***************************************************************************)
(* models: the conversations table.  Rows are kept in creation order; a    *)
(* row's id is its position (a fresh uuid in the code).                    *)
(***************************************************************************)
NoUser == 0

NoPatient == 0

UserIds == {1, 2}

PatientIds == {1, 2}

MaxRows == 2

LinkOthers ==
    <<LIVE_STATE, heap, lock, cookie, conversations, nconv, pc, loc, nreq, faiss_system, found>>

create_conversation ==
    \E owner_user_id \in UserIds \cup {NoUser}, patient_id \in PatientIds \cup {NoPatient} :
       /\ Len(db.conversation) < MaxRows
       /\ db' = [db EXCEPT !.conversation =
                    Append(@, [id |-> Len(@) + 1, owner_user_id |-> owner_user_id,
                               patient_id |-> patient_id])]
       /\ resp' = [op |-> "create", id |-> Len(db.conversation) + 1]
       /\ UNCHANGED LinkOthers

\* A variant of the filter that matches the id alone.
OwnedByAnyone(row, conversation_id, user_id) == row.id = conversation_id

\* .filter(Conversation.id == conversation_id, Conversation.owner_user_id == user_id)
OwnedBy(row, conversation_id, user_id) ==
    row.id = conversation_id /\ row.owner_user_id = user_id

\* newest first
list_conversations_for_user(rows, user_id) ==
    Reversed(SelectSeq(rows, LAMBDA row : row.owner_user_id = user_id))

update_conversation_patient ==
    \E conversation_id \in 1..(MaxRows + 1), user_id \in UserIds,
       patient_id \in PatientIds \cup {NoPatient} :
       LET rows == db.conversation
           n == Cardinality({i \in 1..Len(rows) : OwnedBy(rows[i], conversation_id, user_id)})
       IN  /\ db' = [db EXCEPT !.conversation =
                        [i \in 1..Len(rows) |->
                           IF OwnedBy(rows[i], conversation_id, user_id)
                           THEN [rows[i] EXCEPT !.patient_id = patient_id]
                           ELSE rows[i]]]
           /\ resp' = [op |-> "update", conversation_id |-> conversation_id,
                       user_id |-> user_id, patient_id |-> patient_id, returned |-> n > 0]
           /\ UNCHANGED LinkOthers

NextLinks == create_conversation \/ update_conversation_patient

SpecLinks == Init /\ [][NextLinks]_vars

(***************************************************************************)
(* stt_gemini.gemini_generate_with_retry.  resp holds the running call:    *)
(* the candidate models, the loop position and the generate_content calls  *)
(* made so far with their outcomes.  The environment gives the primary     *)
(* model name and the entries of GEMINI_MODEL_FALLBACKS, already split at  *)
(* the commas and stripped ("" for a blank entry).  The callbacks do not   *)
(* raise.                                                                  *)
(***************************************************************************)
DefaultModel == "gemini-2.5-flash"

\* de-dup, order kept
RECURSIVE DedupModels(_, _)
DedupModels(models, out) ==
    IF models = <<>> THEN out
    ELSE DedupModels(Tail(models),
                     IF \E i \in 1..Len(out) : out[i] = Head(models)
                     THEN out ELSE Append(out, Head(models)))

_gemini_model_candidates(primary, fallbacks) ==
    LET models == (IF primary # "" THEN <<primary>> ELSE <<>>)
                     \o SelectSeq(fallbacks, LAMBDA m : m # "")
        out == DedupModels(models, <<>>)
    IN  IF out # <<>> THEN out ELSE <<DefaultModel>>

\* A variant that takes every failure for an overload.
_is_overload_errorAny(outcome) == outcome # "ok"

\* ServerError with status_code 503
_is_overload_error(outcome) == outcome = "overload"

PrimaryNames == {"", "pro"}

FallbackLists == {<<>>, <<"pro">>, <<"lite">>, <<"", "lite">>, <<"lite", "pro", "lite">>}

MaxAttempts == 2

MaxRuns == 2

Outcomes == {"ok", "overload", "error"}

NoError == "none"

UnknownError == "RuntimeError"

GeminiOthers ==
    <<LIVE_STATE, heap, lock, cookie, conversations, nconv, pc, loc, faiss_system, found, db>>

Running == resp.op = "gemini" /\ resp.status = "running"

\* entry: models = _gemini_model_candidates(); a loop without iterations
\* falls through to the final raise
gemini_start ==
    \E primary \in PrimaryNames, fallbacks \in FallbackLists, max_attempts \in 0..MaxAttempts :
       /\ ~Running
       /\ nreq < MaxRuns
       /\ nreq' = nreq + 1
       /\ resp' = [op |-> "gemini", primary |-> primary, fallbacks |-> fallbacks,
                   models |-> _gemini_model_candidates(primary, fallbacks),
                   max_attempts |-> max_attempts, model_i |-> 1, attempt |-> 1,
                   calls |-> <<>>, last_err |-> NoError,
                   status |-> IF max_attempts >= 1 THEN "running" ELSE "raised",
                   error |-> IF max_attempts >= 1 THEN NoError ELSE UnknownError]
       /\ UNCHANGED GeminiOthers

\* one client.models.generate_content call and what the loops do with its outcome
generate_content ==
    \E outcome \in Outcomes :
       LET calls == Append(resp.calls, [model |-> resp.models[resp.model_i], outcome |-> outcome])
       IN  /\ Running
           /\ resp' =
                 IF outcome = "ok"
                 THEN [resp EXCEPT !.calls = calls, !.status = "returned"]
                 ELSE IF ~_is_overload_error(outcome)
                 THEN [resp EXCEPT !.calls = calls, !.last_err = outcome,
                                   !.status = "raised", !.error = outcome]
                 ELSE IF resp.attempt < resp.max_attempts
                 THEN [resp EXCEPT !.calls = calls, !.last_err = outcome, !.attempt = @ + 1]
                 ELSE IF resp.model_i < Len(resp.models)
                 THEN [resp EXCEPT !.calls = calls, !.last_err = outcome,
                                   !.model_i = @ + 1, !.attempt = 1]
                 ELSE [resp EXCEPT !.calls = calls, !.last_err = outcome,
                                   !.status = "raised", !.error = outcome]
           /\ UNCHANGED <<nreq, LIVE_STATE, heap, lock, cookie, conversations, nconv, pc, loc,
                          faiss_system, found, db>>

NextGemini == gemini_start \/ generate_content

\* every generate_content call returns or raises
SpecGemini == Init /\ [][NextGemini]_vars /\ WF_vars(generate_content)

(***************************************************************************)
(* Live mode: agent_chat_stream with mode=live and live_transcription_stream.*)
(* resp holds the wall clock in seconds and the server-sent events emitted *)
(* so far; cookie.conv is session["conv"].                                 *)
(***************************************************************************)
LIVE_RECO_MIN_INTERVAL_SEC == 7

DaySeconds == 86400

\* datetime.now().strftime("%H:%M:%S")
FormatClock(now) ==
    <<(now % DaySeconds) \div 3600, (now % 3600) \div 60, now % 60>>

\* datetime.combine(now.date(), datetime.strptime(ts, "%H:%M:%S").time())
CombineToday(now, ts) == (now - (now % DaySeconds)) + ts[1] * 3600 + ts[2] * 60 + ts[3]

\* m.get(key) or ""
GetOr(m, key) == IF key \in DOMAIN m THEN m[key] ELSE ""

\* the scan of reversed(history)
RECURSIVE _recent_recommender_emitted(_, _, _)
_recent_recommender_emitted(history, min_interval_sec, now) ==
    IF history = <<>> THEN FALSE
    ELSE LET m == history[Len(history)]
         IN  IF GetOr(m, "type") # "question_recommender"
             THEN _recent_recommender_emitted(SubSeq(history, 1, Len(history) - 1),
                                              min_interval_sec, now)
             ELSE IF GetOr(m, "timestamp") = "" THEN FALSE
             ELSE now - CombineToday(now, m.timestamp) < min_interval_sec

StartClock == 86390

MaxSeconds == 16

MaxFinals == 3

FinalTexts == {"pain", "cough"}

InitLiveMode ==
    /\ faiss_system = NewFaiss
    /\ found = NoCall
    /\ db = EmptyDb
    /\ resp = [op |-> "live", now |-> StartClock, events |-> <<>>]
    /\ LIVE_STATE = [k \in Keys |-> NoObj]
    /\ heap = [o \in ObjIds |-> FreeCell]
    /\ lock = NoThread
    /\ cookie = [user |-> TRUE, id |-> 1, conv |-> <<>>]
    /\ conversations = {1}
    /\ nconv = 1
    /\ pc = [t \in Threads |-> "idle"]
    /\ loc = [t \in Threads |-> IdleLoc]
    /\ nreq = 0

\* time passes
ClockTick ==
    \E d \in {1, LIVE_RECO_MIN_INTERVAL_SEC} :
       /\ resp.now + d <= StartClock + MaxSeconds
       /\ resp' = [resp EXCEPT !.now = @ + d]
       /\ UNCHANGED <<LIVE_STATE, heap, lock, cookie, conversations, nconv, pc, loc, nreq,
                      faiss_system, found, db>>

\* GET /agent_chat_stream?mode=live&role=patient&message=...: the turn is
\* appended to session["conv"], which is the history the stream is given
live_transcription_stream ==
    \E message \in FinalTexts, coherent \in BOOLEAN :
       LET history == Append(cookie.conv, [role |-> "patient", message |-> message])
           patient == [type |-> "message", role |-> "Patient", at |-> resp.now,
                       timestamp |-> FormatClock(resp.now)]
           reco == [type |-> "question_recommender", role |-> "Question Recommender",
                    at |-> resp.now, timestamp |-> FormatClock(resp.now)]
       IN  /\ Len(cookie.conv) < MaxFinals
           /\ cookie' = [cookie EXCEPT !.conv = history]
           /\ resp' = [resp EXCEPT !.events =
                         IF ~coherent THEN @
                         ELSE IF _recent_recommender_emitted(history,
                                    LIVE_RECO_MIN_INTERVAL_SEC, resp.now)
                         THEN Append(@, patient)
                         ELSE @ \o <<patient, reco>>]
           /\ UNCHANGED <<LIVE_STATE, heap, lock, conversations, nconv, pc, loc, nreq,
                          faiss_system, found, db>>

NextLiveMode == ClockTick \/ live_transcription_stream

SpecLiveMode == InitLiveMode /\ [][NextLiveMode]_vars

(***************************************************************************)
(* Patients: api_patients / admin_create_patient without an identifier.    *)
(* A request reads the next identifier in one database session and inserts *)
(* the patient in another; requests of different threads interleave.       *)
(* db.patients holds the rows in insertion order.                          *)
(***************************************************************************)
Digits == <<"0", "1", "2", "3", "4", "5", "6", "7", "8", "9">>

IsDigit(ch) == \E i \in 1..Len(Digits) : Digits[i] = ch

DigitVal(ch) == (CHOOSE i \in 1..Len(Digits) : Digits[i] = ch) - 1

\* int(digits)
RECURSIVE IntOf(_)
IntOf(digits) ==
    IF digits = <<>> THEN 0
    ELSE IntOf(SubSeq(digits, 1, Len(digits) - 1)) * 10 + DigitVal(digits[Len(digits)])

\* str(n)
RECURSIVE StrOf(_)
StrOf(n) == IF n < 10 THEN <<Digits[n + 1]>> ELSE StrOf(n \div 10) \o <<Digits[(n % 10) + 1]>>

\* f"P{n:03d}"
FormatIdentifier(n) ==
    LET d == StrOf(n)
    IN  <<"P">> \o [i \in 1..(IF Len(d) < 3 THEN 3 - Len(d) ELSE 0) |-> "0"] \o d

\* _P_ID_RE.match(ident.strip()): ^P(\d+)$, case ignored
MatchesPId(ident) ==
    LET t == Strip(ident)
    IN  /\ Len(t) >= 2
        /\ t[1] \in {"P", "p"}
        /\ \A i \in 2..Len(t) : IsDigit(t[i])

PNumber(ident) == IntOf(Tail(Strip(ident)))

get_next_global_patient_identifier(rows) ==
    LET ns == {PNumber(rows[i].identifier) :
                 i \in {j \in 1..Len(rows) : rows[j].identifier # <<>>
                                              /\ MatchesPId(rows[j].identifier)}}
    IN  FormatIdentifier(SetMax(ns \cup {0}) + 1)

MaxPatients == 3

\* identifiers typed by a clinician
TypedIdentifiers == {<<"p", "2">>, <<"C", "a", "s", "e">>, <<"P", "0", "1", "0">>}

PatientOthers ==
    <<LIVE_STATE, heap, lock, cookie, conversations, nconv, nreq, faiss_system, found, resp>>

\* POST with an identifier: create_patient(identifier)
CreateTypedPatient(t) ==
    \E identifier \in TypedIdentifiers :
       /\ pc[t] = "idle"
       /\ Len(db.patients) < MaxPatients
       /\ db' = [db EXCEPT !.patients =
                    Append(@, [identifier |-> identifier, auto |-> FALSE])]
       /\ UNCHANGED <<pc, loc>>
       /\ UNCHANGED PatientOthers

\* POST without an identifier, first half: identifier = get_next_global_patient_identifier()
ReadNextIdentifier(t) ==
    /\ pc[t] = "idle"
    /\ Len(db.patients) < MaxPatients
    /\ pc' = [pc EXCEPT ![t] = "create_patient"]
    /\ loc' = [loc EXCEPT ![t].text = get_next_global_patient_identifier(db.patients)]
    /\ UNCHANGED db
    /\ UNCHANGED PatientOthers

\* second half: create_patient(identifier=identifier, ...)
create_patient(t) ==
    /\ pc[t] = "create_patient"
    /\ db' = [db EXCEPT !.patients =
                 Append(@, [identifier |-> loc[t].text, auto |-> TRUE])]
    /\ pc' = [pc EXCEPT ![t] = "idle"]
    /\ loc' = [loc EXCEPT ![t] = IdleLoc]
    /\ UNCHANGED PatientOthers

NextPatients ==
    \E t \in Threads : CreateTypedPatient(t) \/ ReadNextIdentifier(t) \/ create_patient(t)

SpecPatients == Init /\ [][NextPatients]_vars

(***************************************************************************)
(* Properties of the ranker.                                               *)
(***************************************************************************)
\* the scorer's list names a question of the list given to it
NamesAQuestion(items, questions) ==
    \E i \in 1..Len(items), j \in 1..Len(questions) :
       /\ items[i].k = "obj"
       /\ items[i].lex.q.k = "str"
       /\ Strip(items[i].lex.q.v) # <<>>
       /\ normalize_text(Strip(items[i].lex.q.v)) = normalize_text(questions[j])

\* no score of the generation capability can be used
Unusable(llm, questions) ==
    \/ llm.fail # "none"
    \/ ~llm.scorer
    \/ _safe_json_from_text(llm.text).k # "list"
    \/ ~NamesAQuestion(_safe_json_from_text(llm.text).items, questions)
    \/ \E i \in 1..Len(llm.text) : llm.text[i].t = "obj" /\ llm.text[i].q.k = "nonstr"

\* C10: with no non-blank question the result is empty and nothing was called;
\* when loading or running raises, the scorer is missing, the output is no JSON
\* list, an item cannot be read or no item names a question, the result is
\* the fallback ranking of the deduplicated questions.
RankFallsBack ==
    \A t \in Threads :
       pc[t] = "rk_done" =>
          LET given == StripNonEmpty(loc[t].questions)
              unique == deduplicate_questions(given)
          IN  /\ given = <<>> => loc[t].ranked = <<>> /\ loc[t].calls = <<>>
              /\ (given # <<>> /\ Unusable(loc[t].llm, unique)) =>
                    loc[t].ranked = FallbackRank(loc[t].convo_text, unique)

\* an answer that is no usable list has been replaced by a fallback ranking
\* with a positive overlap score
FellBackOnBadAnswer ==
    \E t \in Threads :
       /\ pc[t] = "rk_done"
       /\ loc[t].llm.fail = "none"
       /\ loc[t].llm.scorer
       /\ Unusable(loc[t].llm, deduplicate_questions(StripNonEmpty(loc[t].questions)))
       /\ Len(loc[t].ranked) >= 2
       /\ loc[t].ranked[1].score # <<0, 1>>

\* the scoring path produced the result of a finished call
ScoredBy(t) ==
    LET unique == deduplicate_questions(StripNonEmpty(loc[t].questions))
    IN  /\ pc[t] = "rk_done"
        /\ unique # <<>>
        /\ ScoringPath(unique, loc[t].llm).returned

InUnit(score) == ~IsNaN(score) /\ score[1] >= 0 /\ score[1] <= score[2]

\* C11: on the scoring path every item of the result carries one of the
\* deduplicated input questions and a score between 0 and 1 inclusive, and a
\* question of the scorer that normalizes to no input question is absent.
ScoredItemsOriginalInUnit ==
    \A t \in Threads :
       ScoredBy(t) =>
          LET unique == deduplicate_questions(StripNonEmpty(loc[t].questions))
          IN  \A i \in 1..Len(loc[t].ranked) :
                 /\ \E j \in 1..Len(unique) : loc[t].ranked[i].question = unique[j]
                 /\ InUnit(loc[t].ranked[i].score)

AtLeastSixTenths(it) == ~IsNaN(it.score) /\ 10 * it.score[1] >= 6 * it.score[2]

\* C12: on the scoring path, with filtered the sorted list of valid rows and
\* high its rows with score >= 0.6, the result is the first 10 rows of filtered
\* when high has fewer than 5 or more than 10 rows and exactly high otherwise,
\* so it never has more than 10 rows.
SizePolicyAsStated ==
    \A t \in Threads :
       ScoredBy(t) =>
          LET unique == deduplicate_questions(StripNonEmpty(loc[t].questions))
              rows == ScoredRows(_safe_json_from_text(loc[t].llm.text).items, <<>>).out
              filtered == SortDesc(FilterOriginal(rows, unique))
              high == SelectSeq(filtered, AtLeastSixTenths)
          IN  /\ Len(high) < 5 => loc[t].ranked = FirstN(filtered, 10)
              /\ Len(high) > 10 => loc[t].ranked = FirstN(filtered, 10)
              /\ (Len(high) >= 5 /\ Len(high) <= 10) => loc[t].ranked = high
              /\ Len(loc[t].ranked) <= 10

\* a scored call with more than ten valid rows returned each of: the top ten
\* for four high rows, the high rows alone for five
SizePolicyCases(n) ==
    \E t \in Threads :
       /\ ScoredBy(t)
       /\ loc[t].questions = qTwelve
       /\ loc[t].llm = Graded(qTwelve, n)

FewHighGaveTen ==
    /\ SizePolicyCases(4)
    /\ Len(loc["t1"].ranked) = 10
    /\ \E i \in 1..10 : ~AtLeastSixTenths(loc["t1"].ranked[i])

\* the fallback path produced the result of a finished call
FallbackBy(t) ==
    LET unique == deduplicate_questions(StripNonEmpty(loc[t].questions))
    IN  /\ pc[t] = "rk_done"
        /\ unique # <<>>
        /\ ~ScoringPath(unique, loc[t].llm).returned

\* score = |question words that occur in the transcript| / max(1, |question words|)
OverlapScore(score, q, convo_text) ==
    LET qw == Words(normalize_text(q))
        cw == Words(normalize_text(convo_text))
        den == IF Cardinality(qw) < 1 THEN 1 ELSE Cardinality(qw)
    IN  /\ score[2] > 0
        /\ score[1] * den = Cardinality(qw \cap cw) * score[2]

SortedDesc(items) ==
    \A i \in 1..(Len(items) - 1) :
       items[i].score[1] * items[i + 1].score[2] >= items[i + 1].score[1] * items[i].score[2]

PosIn(questions, q) == SetMin({j \in 1..Len(questions) : questions[j] = q} \cup {Len(questions) + 1})

OrderedAsInput(ranked, unique) ==
    \A i, j \in 1..Len(ranked) :
       i < j =>
          /\ ~FracLess(ranked[i].score, ranked[j].score)
          /\ ranked[i].score = ranked[j].score =>
                PosIn(unique, ranked[i].question) <= PosIn(unique, ranked[j].question)

\* C14: on both paths the returned list is sorted by score descending, and
\* items with equal score stand in the order their questions had in the input
\* question list.
TiesInInputOrder ==
    \A t \in Threads :
       pc[t] = "rk_done" =>
          OrderedAsInput(loc[t].ranked, deduplicate_questions(StripNonEmpty(loc[t].questions)))

\* the call of the scenario: the two questions, a transcript that holds
\* "started three weeks ago", and a generation that raises
DurationScenario(t) ==
    /\ pc[t] = "rk_done"
    /\ loc[t].questions = <<qDuration, qFamily>>
    /\ IsSubstring(tWeeks, loc[t].convo_text)
    /\ loc[t].llm.fail # "none"

RECURSIVE Restrict(_, _, _)
Restrict(items, K, i) ==
    IF i > Len(items) THEN <<>>
    ELSE (IF i \in K THEN <<items[i]>> ELSE <<>>) \o Restrict(items, K, i + 1)

\* kept holds the items of given that are judged similar to no earlier kept
\* item, in their order
FirstSeenKept(given, kept) ==
    \E K \in SUBSET (1..Len(given)) :
       /\ kept = Restrict(given, K, 1)
       /\ \A i \in 1..Len(given) :
             i \in K <=> ~\E j \in K : j < i /\ questions_are_similar(given[i], given[j])

\* C16: the result of deduplicate_questions is the subsequence of the list
\* that keeps each first-seen item and holds no item judged similar to an
\* earlier kept one, and applying deduplicate_questions to it changes nothing.
DedupIdempotent ==
    [][\A t \in Threads :
          /\ DedupApply(t) => FirstSeenKept(loc[t].required, loc'[t].questions)
          /\ DedupAgain(t) => loc'[t].questions = loc[t].questions]_vars

\* a second application ran on a result that had dropped the middle and kept
\* the last of three items
DedupDroppedSome ==
    \E t \in Threads :
       /\ pc[t] = "dd_twice"
       /\ Len(loc[t].required) = 3
       /\ loc[t].questions = <<loc[t].required[1], loc[t].required[3]>>
       /\ questions_are_similar(loc[t].required[2], loc[t].required[1])

\* C17: deduplicate_questions(["Do you smoke?", "do you smoke tobacco"])
\* returns the first question alone: the token overlap is 3/4 and the
\* sequence ratio is 3/4, so 0.4 * 3/4 + 0.6 * 3/4 reaches 0.75 and the second
\* question is judged similar to the first.
SmokePairCollapses ==
    \A t \in Threads :
       (pc[t] \in {"dd_once", "dd_twice"} /\ loc[t].required = <<qSmoke, qTobacco>>) =>
          LET n1 == normalize_text(qSmoke)
              n2 == normalize_text(qTobacco)
              r == SeqRatio(n2, n1)
          IN  /\ loc[t].questions = <<qSmoke>>
              /\ 4 * Cardinality(Words(n1) \cap Words(n2)) = 3 * Cardinality(Words(n1) \cup Words(n2))
              /\ 4 * r[1] = 3 * r[2]
              /\ questions_are_similar(qTobacco, qSmoke)

\* the pair has been deduplicated to its first question
SmokePairDeduplicated ==
    \E t \in Threads :
       /\ pc[t] = "dd_once"
       /\ loc[t].required = <<qSmoke, qTobacco>>
       /\ loc[t].questions = <<qSmoke>>

(***************************************************************************)
(* Properties of the case database.                                        *)
(***************************************************************************)
\* the index is present and holds, position by position, the vectors of cases
IndexAligned ==
    /\ faiss_system.index.present
    /\ Len(faiss_system.cases) = Len(faiss_system.index.vectors)
    /\ \A i \in 1..Len(faiss_system.cases) :
          faiss_system.index.vectors[i] = Encode(faiss_system.cases[i].text)

\* the results of the last search are the first k candidates of the pool
\* that clear the threshold
FirstKClearing(k) ==
    LET clearing == SelectSeq(found.candidates,
                              LAMBDA c : c.idx >= 0 /\ c.similarity >= found.threshold)
        results == found.results
    IN  /\ Len(results) <= k
        /\ Len(results) = (IF Len(clearing) < k THEN Len(clearing) ELSE k)
        /\ \A i \in 1..Len(results) :
              /\ results[i].similarity_score >= found.threshold
              /\ results[i].idx = clearing[i].idx
              /\ results[i].similarity_score = clearing[i].similarity
              /\ results[i].case_id = faiss_system.cases[clearing[i].idx + 1].case_id
        /\ \A i \in 1..(Len(results) - 1) :
              results[i].similarity_score >= results[i + 1].similarity_score
        /\ Len(found.candidates) =
              (IF Len(faiss_system.index.vectors) < 50
               THEN Len(faiss_system.index.vectors) ELSE 50)

\* C18: on a built or loaded index a search returns at most k results, for
\* every k including 0, each with similarity >= the threshold, in
\* similarity-descending order, namely the first k candidates of the pool of
\* the top min(corpus size, 50) neighbours that clear the threshold, and the
\* empty list when none does.
SearchReturnsFirstK ==
    (found.op = "search" /\ ~found.raised /\ IndexAligned) => FirstKClearing(found.k)

\* C19: in every state reached by build_database and load_index calls,
\* failed ones included, whenever the vector index is present the number of
\* cases equals the number of vectors and position i of the index holds the
\* vector of cases[i].
IndexAlwaysAligned ==
    faiss_system.index.present => IndexAligned

\* C20: load_index fails when the metadata file and the index file differ in
\* length, never completing in that state, and a later search never drops or
\* truncates candidates whose position has no case.
LoadRejectsMismatch ==
    /\ (found.op = "load" /\ ~found.raised) =>
          Len(faiss_system.cases) = Len(faiss_system.index.vectors)
    /\ (found.op = "search" /\ ~found.raised) =>
          /\ Len(found.candidates) =
                (IF Len(faiss_system.index.vectors) < 50
                 THEN Len(faiss_system.index.vectors) ELSE 50)
          /\ \A i \in 1..Len(found.candidates) :
                found.candidates[i].idx < Len(faiss_system.cases)

\* the positions of the records of a corpus whose text is not blank
WithText(cases_data) == {i \in 1..Len(cases_data) : cases_data[i].text # BlankText}

\* C21: build_database indexes exactly the input records whose text is not
\* blank, in input order, in the case list as in the vector index (two of
\* three records when one is blank), and fails when no record has text.
BuildIndexesNonBlank ==
    found.op = "build" =>
       LET kept == Restrict(found.given, WithText(found.given), 1)
       IN  /\ kept = <<>> => found.raised
           /\ ~found.raised =>
                 /\ faiss_system.index.present
                 /\ Len(faiss_system.cases) = Len(kept)
                 /\ Len(faiss_system.index.vectors) = Len(kept)
                 /\ \A i \in 1..Len(kept) :
                       /\ faiss_system.cases[i].text = kept[i].text
                       /\ faiss_system.index.vectors[i] = Encode(kept[i].text)

\* a corpus of three records, the first blank, has been built into two cases
BuiltTwoOfThree ==
    /\ found.op = "build"
    /\ ~found.raised
    /\ Len(found.given) = 3
    /\ found.given[1].text = BlankText
    /\ Len(faiss_system.cases) = 2
    /\ Len(faiss_system.index.vectors) = 2
(***************************************************************************)
(* Properties of the disease likelihoods.                                  *)
(***************************************************************************)
Lists(r, name) ==
    /\ r.Suspected_illness.k # "none"
    /\ \E j \in 1..Len(r.Suspected_illness.names) : Strip(r.Suspected_illness.names[j]) = name

ListedNames(results) ==
    UNION {{Strip(results[i].Suspected_illness.names[j]) :
               j \in 1..Len(results[i].Suspected_illness.names)} :
           i \in 1..Len(results)} \ {<<>>}

RECURSIVE CaseSum(_, _)
CaseSum(results, name) ==
    IF results = <<>> THEN 0
    ELSE (IF Lists(Head(results), name) /\ Head(results).similarity_score > 0
          THEN Head(results).similarity_score ELSE 0) + CaseSum(Tail(results), name)

Stated(results, name) == [disease |-> name, weight |-> CaseSum(results, name)]

RankedAsStatedFor(results, top) ==
    LET names == ListedNames(results)
        n == IF Cardinality(names) < TopDiseases THEN Cardinality(names) ELSE TopDiseases
    IN  /\ Len(top) = n
        /\ \A i \in 1..Len(top) :
              top[i].disease \in names /\ top[i] = Stated(results, top[i].disease)
        /\ \A i \in 1..(Len(top) - 1) : KeyLess(top[i], top[i + 1])
        /\ \A name \in names :
              (\A i \in 1..Len(top) : top[i].disease # name)
                 => KeyLess(top[Len(top)], Stated(results, name))

Computed == resp.op = "likelihoods" /\ resp.source = "computed"

\* C22: a computed answer lists at most five conditions, each weighted by
\* the sum of the similarity scores of the returned cases that list it,
\* ordered by weight descending and by name ascending among equal weights;
\* no condition left out ranks before a listed one.
RankedAsStated == Computed => RankedAsStatedFor(resp.results, resp.top_diseases)

LikelihoodRequest == nreq' = nreq + 1

OthersKept == \A c \in Analysed \ {resp'.cid} : db'.likelihoods[c] = db.likelihoods[c]

ServedFromDb ==
    /\ resp'.source = "db"
    /\ resp'.top_diseases = db.likelihoods[resp'.cid].top_diseases
    /\ resp'.analyzed_at = db.likelihoods[resp'.cid].analyzed_at
    /\ db' = db

Recomputed ==
    /\ resp'.source = "computed"
    /\ resp'.analyzed_at = nreq'
    /\ db'.likelihoods[resp'.cid] =
          [present |-> TRUE, top_diseases |-> resp'.top_diseases, analyzed_at |-> nreq']
    /\ db'.messages = db.messages

NothingToAnalyse == resp'.status = 404 /\ resp'.source = "none" /\ db' = db

Owns(rows, conversation_id, user_id) ==
    \E i \in 1..Len(rows) :
       rows[i].id = conversation_id /\ rows[i].owner_user_id = user_id

Listed(rows, user_id, conversation_id, patient_id) ==
    LET shown == list_conversations_for_user(rows, user_id)
    IN  \E i \in 1..Len(shown) :
           shown[i].id = conversation_id /\ shown[i].patient_id = patient_id

\* C23: update_conversation_patient returns True exactly when the user owns
\* a conversation of that id; then that row alone has the new patient_id and
\* the user's list shows it; otherwise no row changes.
UpdateOnlyOwn ==
    [][update_conversation_patient =>
         LET r == resp'
             owned == Owns(db.conversation, r.conversation_id, r.user_id)
         IN  /\ r.returned = owned
             /\ Len(db'.conversation) = Len(db.conversation)
             /\ \A i \in 1..Len(db.conversation) :
                   db'.conversation[i] =
                      IF owned /\ db.conversation[i].id = r.conversation_id
                      THEN [db.conversation[i] EXCEPT !.patient_id = r.patient_id]
                      ELSE db.conversation[i]
             /\ owned => Listed(db'.conversation, r.user_id, r.conversation_id, r.patient_id)]_vars

\* an update of another user's conversation was refused
RefusedForeignUpdate ==
    /\ resp.op = "update" /\ ~resp.returned
    /\ \E i \in 1..Len(db.conversation) :
          /\ db.conversation[i].id = resp.conversation_id
          /\ db.conversation[i].owner_user_id \notin {resp.user_id, NoUser}
          /\ db.conversation[i].patient_id # resp.patient_id

(***************************************************************************)
(* Properties of the Gemini retry loop.                                    *)
(***************************************************************************)
CallsInOrder ==
    \A j \in 1..Len(resp.calls) :
       resp.calls[j].model = resp.models[((j - 1) \div resp.max_attempts) + 1]

RetryBounded ==
    resp.op = "gemini" =>
       /\ Len(resp.calls) <= resp.max_attempts * Len(resp.models)
       /\ CallsInOrder
       /\ \A j \in 1..(Len(resp.calls) - 1) : resp.calls[j].outcome = "overload"
       /\ resp.status = "running" =>
             /\ Len(resp.calls) < resp.max_attempts * Len(resp.models)
             /\ \A j \in 1..Len(resp.calls) : resp.calls[j].outcome = "overload"
       /\ resp.status = "returned" => resp.calls[Len(resp.calls)].outcome = "ok"
       /\ resp.status = "raised" =>
             IF resp.calls = <<>> THEN resp.max_attempts = 0 /\ resp.error = UnknownError
             ELSE /\ resp.error = resp.calls[Len(resp.calls)].outcome
                  /\ resp.error \in {"overload", "error"}
                  /\ resp.error = "overload" =>
                        Len(resp.calls) = resp.max_attempts * Len(resp.models)

\* C24: the calls made are at most max_attempts per candidate model, in the
\* configured order, each but the last answered by a 503; a success is
\* returned and another error raised at once, the last 503 is raised when
\* every model is used up, and a running call always comes to an end.
RetryTerminates == []RetryBounded /\ (Running ~> ~Running)

\* both models were used up by overloads
ExhaustedTwoModels ==
    /\ resp.op = "gemini" /\ resp.status = "raised" /\ resp.error = "overload"
    /\ Len(resp.models) = 2 /\ Len(resp.calls) = 4
    /\ resp.calls[2].model # resp.calls[3].model

(***************************************************************************)
(* Properties of live mode.                                                *)
(***************************************************************************)
Recommendations == SelectSeq(resp.events, LAMBDA e : e.type = "question_recommender")

\* C25: any two question recommendations emitted for the conversation are
\* at least LIVE_RECO_MIN_INTERVAL_SEC seconds apart.
RecommendationsSpaced ==
    resp.op = "live" =>
       \A i, j \in 1..Len(Recommendations) :
          i < j => Recommendations[j].at - Recommendations[i].at >= LIVE_RECO_MIN_INTERVAL_SEC

(***************************************************************************)
(* Properties of the patient identifiers.                                  *)
(***************************************************************************)
\* C26: no two patients with a generated identifier share it, and the number
\* of a generated identifier exceeds the number of every P-identifier stored
\* before it.
GeneratedIdentifiersFresh ==
    \A j \in 1..Len(db.patients) :
       db.patients[j].auto =>
          \A i \in 1..(j - 1) :
             /\ db.patients[i].auto => db.patients[i].identifier # db.patients[j].identifier
             /\ MatchesPId(db.patients[i].identifier) =>
                   PNumber(db.patients[i].identifier) < PNumber(db.patients[j].identifier)

(***************************************************************************)
(* Further properties of the ranker.                                       *)
(***************************************************************************)
\* C28: a finished call on a list of which at least 5 questions remain after
\* deduplication returns between 5 and 10 items, on either path.
FiveToTenReturned ==
    \A t \in Threads :
       (/\ pc[t] = "rk_done"
        /\ Len(deduplicate_questions(StripNonEmpty(loc[t].questions))) >= 5)
          => (Len(loc[t].ranked) >= 5 /\ Len(loc[t].ranked) <= 10)

\* C30: no two items of a returned list have the same normalized question
\* text, on either path.
EachQuestionOnce ==
    \A t \in Threads :
       pc[t] = "rk_done" =>
          \A i, j \in 1..Len(loc[t].ranked) :
             i # j => normalize_text(loc[t].ranked[i].question)
                         # normalize_text(loc[t].ranked[j].question)

(***************************************************************************)
(* Further properties of the live state store.                             *)
(***************************************************************************)
Mutates(t) ==
    /\ PlanBody(t) \/ MarkBody(t) \/ AppendBody(t) \/ UnaskedWrite(t) \/ StopWrite(t)
    /\ heap' # heap

\* C29: whenever a request changes a session state inside its critical
\* section, the object it changes is the one LIVE_STATE holds for the
\* request's key at that moment.
WritesReachStoredState ==
    [][\A t \in Threads :
          Mutates(t) => LIVE_STATE[<<Uid, loc[t].sid>>] = loc[t].st]_vars

====
